---------------------------- MODULE Spec2Model ----------------------------
(***************************************************************************)
(* A model of fozzy's post-hoc analysis core:                              *)
(*   - the deterministic memory capability state machine                   *)
(*     (src/runtime/memorycap.rs: MemoryState);                            *)
(*   - the profile reducers (src/cmd/profile_cmd.rs).                      *)
(*                                                                         *)
(* Conventions.                                                            *)
(*   Option<T>  is a sequence of length 0 (None) or 1 (Some(v)).           *)
(*   String     is a sequence of one-character strings wherever the code   *)
(*              formats, parses, strips or compares it; an opaque TLA+     *)
(*              string where the code only stores and copies it.           *)
(*   u64        TLC integers are 32 bits wide, so u64 is modelled as an    *)
(*              unsigned word whose largest value is U64Max, with the      *)
(*              code's saturating / wrapping operations on that word.      *)
(***************************************************************************)
EXTENDS Integers, Sequences, FiniteSets, TLC

(***************************************************************************)
(* Bounds of the model.                                                    *)
(***************************************************************************)
\* Largest value of the unsigned word that stands for u64.
U64Max == 2097151

\* Number of allocate / free / checkpoint calls made on one MemoryState.
MaxOps == 4

(***************************************************************************)
(* Program constants.                                                      *)
(***************************************************************************)
\* memorycap.rs:72  limit_mb.saturating_mul(1024 * 1024)
BytesPerMb == 1048576

\* memorycap.rs:288  (h.as_bytes()[0] as u64) % 31
FragModulus == 31

\* memorycap.rs:289  (scaled.saturating_mul(pct)) / 100
FragDivisor == 100

(***************************************************************************)
(* Option<T>.                                                              *)
(***************************************************************************)
None == << >>

Some(v) == << v >>

IsSome(o) == Len(o) = 1

Unwrap(o) == o[1]

(***************************************************************************)
(* u64 arithmetic.                                                         *)
(***************************************************************************)
saturating_add(a, b) == IF a + b > U64Max THEN U64Max ELSE a + b

saturating_sub(a, b) == IF a < b THEN 0 ELSE a - b

saturating_mul(a, b) ==
    IF a = 0 \/ b = 0 THEN 0
    ELSE IF a > U64Max \div b THEN U64Max
    ELSE a * b

\* An unchecked `+`/`sum()` in a build without overflow checks.
wrapping(n) == n % (U64Max + 1)

Max(a, b) == IF a >= b THEN a ELSE b

(***************************************************************************)
(* Strings as character sequences.                                         *)
(***************************************************************************)
DigitChars == << "0", "1", "2", "3", "4", "5", "6", "7", "8", "9" >>

\* The characters the model's strings are made of, in byte order.
CharOrder ==
    << " ", "+", ",", "-", ".", "0", "1", "2", "3", "4", "5", "6", "7", "8",
       "9", ":", ";", "_", "a", "b", "c", "d", "e", "f", "g", "h", "i", "j",
       "k", "l", "m", "n", "o", "p", "q", "r", "s", "t", "u", "v", "w", "x",
       "y", "z" >>

CharCodes ==
    [c \in { CharOrder[i] : i \in 1..Len(CharOrder) } |->
        CHOOSE i \in 1..Len(CharOrder) : CharOrder[i] = c]

CharCode(c) == CharCodes[c]

IsDigit(c) == \E i \in 1..Len(DigitChars) : DigitChars[i] = c

DigitVal(c) == (CHOOSE i \in 1..Len(DigitChars) : DigitChars[i] = c) - 1

\* format!("{n}") of an unsigned integer.
RECURSIVE Decimal(_)
Decimal(n) ==
    IF n < 10 THEN << DigitChars[n + 1] >>
    ELSE Decimal(n \div 10) \o << DigitChars[(n % 10) + 1] >>

\* str::cmp: lexicographic byte order; LessStr is Ordering::Less.
LessStr(s, t) ==
    LET m == IF Len(s) < Len(t) THEN Len(s) ELSE Len(t)
        diff == { i \in 1..m : s[i] # t[i] }
    IN  IF diff = {} THEN Len(s) < Len(t)
        ELSE LET i == CHOOSE d \in diff : \A e \in diff : d <= e
             IN  CharCode(s[i]) < CharCode(t[i])

StartsWith(s, p) == Len(s) >= Len(p) /\ SubSeq(s, 1, Len(p)) = p

\* str::strip_prefix.
strip_prefix(s, p) ==
    IF StartsWith(s, p) THEN Some(SubSeq(s, Len(p) + 1, Len(s))) ELSE None


\* str::trim over the one whitespace character the model uses.
RECURSIVE TrimStart(_)
TrimStart(s) ==
    IF s # << >> /\ Head(s) = " " THEN TrimStart(Tail(s)) ELSE s

RECURSIVE TrimEnd(_)
TrimEnd(s) ==
    IF s # << >> /\ s[Len(s)] = " " THEN TrimEnd(SubSeq(s, 1, Len(s) - 1)) ELSE s

trim(s) == TrimEnd(TrimStart(s))

\* str::split(','): the fields between the separators (one field when there
\* is no separator, the empty string included).
RECURSIVE SplitFrom(_, _, _)
SplitFrom(s, sep, cur) ==
    IF s = << >> THEN << cur >>
    ELSE IF Head(s) = sep THEN << cur >> \o SplitFrom(Tail(s), sep, << >>)
    ELSE SplitFrom(Tail(s), sep, Append(cur, Head(s)))

split(s, sep) == SplitFrom(s, sep, << >>)

\* str::parse::<u64>().ok(): an optional '+', then one or more digits, and a
\* value that fits the word.
RECURSIVE ParseDigits(_, _)
ParseDigits(s, acc) ==
    IF s = << >> THEN Some(acc)
    ELSE IF ~IsDigit(Head(s)) THEN None
    ELSE IF acc > (U64Max - DigitVal(Head(s))) \div 10 THEN None
    ELSE ParseDigits(Tail(s), acc * 10 + DigitVal(Head(s)))

parse_u64(s) ==
    LET body == IF s # << >> /\ Head(s) = "+" THEN Tail(s) ELSE s
    IN  IF body = << >> THEN None ELSE ParseDigits(body, 0)

RECURSIVE FilterMapWave(_)
FilterMapWave(fields) ==
    IF fields = << >> THEN << >>
    ELSE LET m == parse_u64(trim(Head(fields)))
         IN  (IF IsSome(m) /\ Unwrap(m) > 0 THEN << Unwrap(m) >> ELSE << >>)
             \o FilterMapWave(Tail(fields))

parse_pressure_wave(pattern) ==
    IF ~IsSome(pattern) THEN << >>
    ELSE FilterMapWave(split(Unwrap(pattern), ","))

(***************************************************************************)
(* Collections.                                                            *)
(***************************************************************************)
\* slice::sort_by, a stable sort: an element goes after those that compare
\* less and after the equal ones that stood before it.  less[i][j] is
\* whether the comparator puts seq[i] before seq[j].
StableSort(seq, less) ==
    LET n == Len(seq)
        before == [i \in 1..n |->
            Cardinality({ j \in 1..n :
                \/ less[j][i]
                \/ (~less[i][j] /\ j < i) })]
    IN  IF \A i \in 1..(n - 1) : ~less[i + 1][i]
        THEN seq
        ELSE [k \in 1..n |-> seq[CHOOSE i \in 1..n : before[i] = k - 1]]

\* The elements of a set in ascending order of a strict total order;
\* less[<<x, y>>] is whether x is below y.
Ascending(S, less) ==
    LET below == [x \in S |-> Cardinality({ y \in S : less[<< y, x >>] })]
    IN  [k \in 1..Cardinality(S) |-> CHOOSE x \in S : below[x] = k - 1]

\* u64::cmp on the keys of a map.
LessInt(S) == [p \in S \X S |-> p[1] < p[2]]

\* String::cmp on the keys of a map.
LessKey(S) == [p \in S \X S |-> LessStr(p[1], p[2])]

\* Every sequence that lists each element of S once.
Orderings(S) ==
    { p \in [1..Cardinality(S) -> S] : \A x \in S : \E k \in DOMAIN p : p[k] = x }

\* The orders in which iter() may visit the keys of a BTreeMap: ascending
\* key order, the only one.
btree_iter(keys, less) == { Ascending(keys, less) }

\* A BTreeSet<String> is the ascending sequence of its elements: insert puts
\* a new element at its place and leaves the set alone when it is there.
btree_set_insert(set, x) ==
    IF \E i \in 1..Len(set) : set[i] = x THEN set
    ELSE LET k == Cardinality({ i \in 1..Len(set) : LessStr(set[i], x) })
         IN  SubSeq(set, 1, k) \o << x >> \o SubSeq(set, k + 1, Len(set))

\* The orders in which iter() may visit the keys of a std HashMap: its
\* RandomState hasher is seeded per map, so any order.
hash_iter(keys) == Orderings(keys)

RECURSIVE SumSeq(_)
SumSeq(seq) == IF seq = << >> THEN 0 ELSE Head(seq) + SumSeq(Tail(seq))

(***************************************************************************)
(* blake3.  The digest is a fixed function of its input that the model     *)
(* cannot compute; a table stands for it: distinct short hex strings for   *)
(* the hex digest of the callsite labels, and a byte that varies with the  *)
(* input for the first digest byte of the fragmentation input.             *)
(***************************************************************************)
\* blake3::hash(callsite.as_bytes()).to_hex().to_string()
Blake3Hex(callsite) ==
    IF callsite = "scenario:step" THEN << "c", "4" >> ELSE << "0", "b" >>

\* blake3::hash(seed_le8 || alloc_ops_le8 || requested_le8).as_bytes()[0]
Blake3FirstByte(seed, alloc_ops, requested) ==
    (131 * seed + 61 * alloc_ops + requested) % 256

(***************************************************************************)
(* MemoryState.                                                            *)
(***************************************************************************)
AllocPrefix == << "a", "l", "l", "o", "c", ":" >>

FreePrefix == << "f", "r", "e", "e", ":" >>

CallsitePrefix == << "c", "a", "l", "l", "s", "i", "t", "e", ":" >>

new(options) ==
    [ options |-> options,
      next_alloc_id |-> 1,
      alloc_ops |-> 0,
      in_use_bytes |-> 0,
      peak_bytes |-> 0,
      live |-> << >>,
      timeline |-> << >>,
      graph_nodes |-> << >>,
      graph_edges |-> << >>,
      free_count |-> 0,
      failed_alloc_count |-> 0,
      pressure_wave_multipliers |-> parse_pressure_wave(options.pressure_wave),
      fragmentation_seed |->
          IF IsSome(options.fragmentation_seed)
          THEN Unwrap(options.fragmentation_seed) ELSE 0 ]

push_timeline(s, time_ms, kind, fields) ==
    [s EXCEPT !.timeline =
        Append(@, [ index |-> Len(s.timeline), time_ms |-> time_ms,
                    kind |-> kind, fields |-> fields ])]

\* An effective size whose wave position is that of the call after.
effective_alloc_bytes_ahead(s, requested) ==
    LET wave == s.pressure_wave_multipliers
        scaled ==
            IF wave = << >> THEN requested
            ELSE saturating_mul(requested, wave[(s.alloc_ops % Len(wave)) + 1])
    IN  IF IsSome(s.options.fragmentation_seed)
        THEN LET h0 == Blake3FirstByte(s.fragmentation_seed, s.alloc_ops,
                                       requested)
                 pct == h0 % FragModulus
             IN  saturating_add(scaled,
                                saturating_mul(scaled, pct) \div FragDivisor)
        ELSE scaled

\* `s` already holds the incremented alloc_ops.
effective_alloc_bytes(s, requested) ==
    LET wave == s.pressure_wave_multipliers
        scaled ==
            IF wave = << >> THEN requested
            ELSE LET idx == saturating_sub(s.alloc_ops, 1) % Len(wave)
                 IN  saturating_mul(requested, wave[idx + 1])
    IN  IF IsSome(s.options.fragmentation_seed)
        THEN LET h0 == Blake3FirstByte(s.fragmentation_seed, s.alloc_ops,
                                       requested)
                 pct == h0 % FragModulus
             IN  saturating_add(scaled,
                                saturating_mul(scaled, pct) \div FragDivisor)
        ELSE scaled


\* Mutant: a request that reaches the limit exactly is rejected too.
limit_exceeded_at(s, effective_bytes) ==
    /\ IsSome(s.options.limit_mb)
    /\ saturating_add(s.in_use_bytes, effective_bytes)
          >= saturating_mul(Unwrap(s.options.limit_mb), BytesPerMb)

\* Mutant: the limit is compared with what is in use before the request.
limit_exceeded_before(s, effective_bytes) ==
    /\ IsSome(s.options.limit_mb)
    /\ s.in_use_bytes > saturating_mul(Unwrap(s.options.limit_mb), BytesPerMb)

\* allocate's limit check: the request would take in_use_bytes past the limit.
limit_exceeded(s, effective_bytes) ==
    /\ IsSome(s.options.limit_mb)
    /\ saturating_add(s.in_use_bytes, effective_bytes)
          > saturating_mul(Unwrap(s.options.limit_mb), BytesPerMb)

\* Mutant: the budget is spent one call early.
fail_after_exceeded_at(s) ==
    /\ IsSome(s.options.fail_after_allocs)
    /\ s.alloc_ops >= Unwrap(s.options.fail_after_allocs)

\* Mutant: the budget is spent by the allocations that succeeded.
fail_after_exceeded_by_ids(s) ==
    /\ IsSome(s.options.fail_after_allocs)
    /\ s.next_alloc_id > Unwrap(s.options.fail_after_allocs)

\* allocate's budget check; `s` already holds the incremented alloc_ops.
fail_after_exceeded(s) ==
    /\ IsSome(s.options.fail_after_allocs)
    /\ s.alloc_ops > Unwrap(s.options.fail_after_allocs)

\* Mutant: the id counter stands still.
next_alloc_id_same(alloc_id) == alloc_id

\* self.next_alloc_id after an id was handed out.
next_alloc_id_after(alloc_id) == saturating_add(alloc_id, 1)

\* Mutant: the peak follows in_use_bytes instead of its maximum.
peak_after_last(peak_bytes, in_use) == in_use

\* self.peak_bytes after in_use_bytes grew to in_use.
peak_after(peak_bytes, in_use) == Max(peak_bytes, in_use)

\* Mutant: the record keeps the requested bytes.
alloc_record_requested(bytes, effective_bytes, callsite_hash, tag) ==
    [ bytes |-> bytes, callsite_hash |-> callsite_hash, tag |-> tag ]

\* The AllocRecord allocate inserts into `live`, built from allocate's
\* locals.
alloc_record(bytes, effective_bytes, callsite_hash, tag) ==
    [ bytes |-> effective_bytes, callsite_hash |-> callsite_hash, tag |-> tag ]

\* Mutant: the edge points from the allocation to its callsite.
allocates_edge_reversed(callsite_node, alloc_node) ==
    [ from |-> alloc_node, to |-> callsite_node, kind |-> "allocates" ]

\* The edge allocate adds to the graph.
allocates_edge(callsite_node, alloc_node) ==
    [ from |-> callsite_node, to |-> alloc_node, kind |-> "allocates" ]

\* Mutant: a free leaves in_use_bytes as it was.
in_use_after_free_kept(in_use_bytes, rec) == in_use_bytes

\* self.in_use_bytes after the live record rec was freed.
in_use_after_free(in_use_bytes, rec) == saturating_sub(in_use_bytes, rec.bytes)

\* Mutant: a missing free is counted as a free.
free_missing_counted(s, alloc_id, time_ms) ==
    [ st |-> push_timeline([s EXCEPT !.free_count = saturating_add(@, 1)],
                           time_ms, "free_missing", [ allocId |-> alloc_id ]),
      out |-> FALSE ]

\* free of an id that is not in the live set.
free_missing(s, alloc_id, time_ms) ==
    [ st |-> push_timeline(s, time_ms, "free_missing",
                           [ allocId |-> alloc_id ]),
      out |-> FALSE ]

\* Mutant: a rejected allocation is not counted as failed.
alloc_fail_uncounted(s, bytes, effective_bytes, reason, callsite_hash, time_ms) ==
    [ st |-> push_timeline(s, time_ms, "alloc_fail",
                [ bytes |-> bytes, effectiveBytes |-> effective_bytes,
                  reason |-> reason, callsiteHash |-> callsite_hash ]),
      out |-> [ alloc_id |-> None, failed_reason |-> Some(reason),
                callsite_hash |-> callsite_hash ] ]

\* allocate's two rejections: count the failure, record it, return it.
alloc_fail(s, bytes, effective_bytes, reason, callsite_hash, time_ms) ==
    LET s1 == [s EXCEPT !.failed_alloc_count = saturating_add(@, 1)]
    IN  [ st |-> push_timeline(s1, time_ms, "alloc_fail",
                    [ bytes |-> bytes, effectiveBytes |-> effective_bytes,
                      reason |-> reason, callsiteHash |-> callsite_hash ]),
          out |-> [ alloc_id |-> None, failed_reason |-> Some(reason),
                    callsite_hash |-> callsite_hash ] ]

allocate(s, bytes, tag, callsite, time_ms) ==
    LET callsite_hash == Blake3Hex(callsite)
        s1 == [s EXCEPT !.alloc_ops = saturating_add(@, 1)]
        effective_bytes == effective_alloc_bytes(s1, bytes)
    IN  IF limit_exceeded(s1, effective_bytes)
        THEN alloc_fail(s1, bytes, effective_bytes, "limit_mb",
                        callsite_hash, time_ms)
        ELSE IF fail_after_exceeded(s1)
        THEN alloc_fail(s1, bytes, effective_bytes, "fail_after_allocs",
                        callsite_hash, time_ms)
        ELSE
        LET alloc_id == s1.next_alloc_id
            in_use == saturating_add(s1.in_use_bytes, effective_bytes)
            s2 == [s1 EXCEPT
                     !.next_alloc_id = next_alloc_id_after(alloc_id),
                     !.in_use_bytes = in_use,
                     !.peak_bytes = peak_after(@, in_use),
                     !.live = [k \in DOMAIN @ \cup {alloc_id} |->
                                  IF k = alloc_id
                                  THEN alloc_record(bytes, effective_bytes,
                                                    callsite_hash, tag)
                                  ELSE @[k]]]
            s3 == push_timeline(s2, time_ms, "alloc",
                     [ allocId |-> alloc_id, bytes |-> bytes,
                       effectiveBytes |-> effective_bytes,
                       inUseBytes |-> in_use,
                       callsiteHash |-> callsite_hash, tag |-> tag ])
            alloc_node == AllocPrefix \o Decimal(alloc_id)
            callsite_node == CallsitePrefix \o callsite_hash
        IN  [ st |-> [s3 EXCEPT
                        !.graph_nodes =
                            btree_set_insert(btree_set_insert(@, alloc_node),
                                             callsite_node),
                        !.graph_edges =
                            Append(@, allocates_edge(callsite_node,
                                                     alloc_node))],
              out |-> [ alloc_id |-> Some(alloc_id), failed_reason |-> None,
                        callsite_hash |-> callsite_hash ] ]

free(s, alloc_id, time_ms) ==
    IF alloc_id \notin DOMAIN s.live
    THEN free_missing(s, alloc_id, time_ms)
    ELSE
    LET rec == s.live[alloc_id]
        in_use == in_use_after_free(s.in_use_bytes, rec)
        s1 == [s EXCEPT
                 !.live = [k \in DOMAIN @ \ {alloc_id} |-> @[k]],
                 !.free_count = saturating_add(@, 1),
                 !.in_use_bytes = in_use]
        s2 == push_timeline(s1, time_ms, "free",
                 [ allocId |-> alloc_id, bytes |-> rec.bytes,
                   inUseBytes |-> in_use ])
        free_node == FreePrefix \o Decimal(alloc_id)
    IN  [ st |-> [s2 EXCEPT
                    !.graph_nodes = btree_set_insert(@, free_node),
                    !.graph_edges =
                        Append(@, [ from |-> AllocPrefix \o Decimal(alloc_id),
                                    to |-> free_node,
                                    kind |-> "freed_by" ])],
          out |-> TRUE ]

checkpoint(s, name, time_ms) ==
    push_timeline(s, time_ms, "checkpoint",
        [ name |-> name, inUseBytes |-> s.in_use_bytes,
          liveAllocs |-> Cardinality(DOMAIN s.live) ])


\* Mutant: `live` is a HashMap.
live_iter_hashed(live) == hash_iter(DOMAIN live)

\* The orders in which finalize may visit `live` (a BTreeMap<u64, _>).
live_iter(live) == btree_iter(DOMAIN live, LessInt(DOMAIN live))

graph_node(id) ==
    LET a == strip_prefix(id, AllocPrefix)
        f == strip_prefix(id, FreePrefix)
        c == strip_prefix(id, CallsitePrefix)
    IN  IF IsSome(a) THEN [ id |-> id, kind |-> "alloc", label |-> Unwrap(a) ]
        ELSE IF IsSome(f) THEN [ id |-> id, kind |-> "free", label |-> Unwrap(f) ]
        ELSE IF IsSome(c)
             THEN [ id |-> id, kind |-> "callsite", label |-> Unwrap(c) ]
        ELSE [ id |-> id, kind |-> "node", label |-> id ]

LessNodeId(a, b) == LessStr(a.id, b.id)

\* finalize(self), visiting `live` in the order live_order.  The leak bytes
\* are summed with an unchecked sum(): past the word it panics in a build
\* with overflow checks and wraps in one without.
finalize(s, live_order, overflow_checks) ==
    LET leaks == [k \in 1..Len(live_order) |->
                    [ alloc_id |-> live_order[k],
                      bytes |-> s.live[live_order[k]].bytes,
                      callsite_hash |-> s.live[live_order[k]].callsite_hash,
                      tag |-> s.live[live_order[k]].tag ]]
        total == SumSeq([k \in 1..Len(leaks) |-> leaks[k].bytes])
        summary == [ alloc_count |-> s.alloc_ops,
                     free_count |-> s.free_count,
                     failed_alloc_count |-> s.failed_alloc_count,
                     in_use_bytes |-> s.in_use_bytes,
                     peak_bytes |-> s.peak_bytes,
                     leaked_bytes |-> wrapping(total),
                     leaked_allocs |-> Len(leaks) ]
        collected == [k \in 1..Len(s.graph_nodes) |->
                        graph_node(s.graph_nodes[k])]
        nodes == StableSort(collected,
                    [i \in DOMAIN collected |-> [j \in DOMAIN collected |->
                        LessNodeId(collected[i], collected[j])]])
    IN  IF total > U64Max /\ overflow_checks
        THEN [ panicked |-> TRUE ]
        ELSE [ panicked |-> FALSE,
               schema_version |-> "fozzy.memory_report.v1",
               options |-> s.options,
               summary |-> summary,
               leaks |-> leaks,
               timeline |-> s.timeline,
               graph |-> [ nodes |-> nodes, edges |-> s.graph_edges ] ]


(***************************************************************************)
(* The profile reducers (cmd/profile_cmd.rs).                              *)
(*                                                                         *)
(* A TraceEvent is [time_ms, name, fields]; fields maps field names to     *)
(* JSON values [kind, v].  A serde_json::Map and a BTreeMap are functions  *)
(* of their keys.  An f64 the code computes by one division is kept as the *)
(* pair of its operands.                                                   *)
(***************************************************************************)
JsonNumber(n) == [ kind |-> "number", v |-> n ]

JsonString(str) == [ kind |-> "string", v |-> str ]

\* Value::as_u64
as_u64(value) == IF value.kind = "number" THEN Some(value.v) ELSE None

\* Value::as_str
as_str(value) == IF value.kind = "string" THEN Some(value.v) ELSE None

\* Map::get followed by and_then.
get_u64(fields, key) ==
    IF key \in DOMAIN fields THEN as_u64(fields[key]) ELSE None

get_str(fields, key) ==
    IF key \in DOMAIN fields THEN as_str(fields[key]) ELSE None

\* The tag build_profile_timeline keeps for a field value, if any.
tag_of(value) ==
    IF value.kind = "string" THEN Some(value.v)
    ELSE IF value.kind = "number" THEN Some(Decimal(value.v))
    ELSE IF value.kind = "bool"
         THEN Some(IF value.v THEN << "t", "r", "u", "e" >>
                   ELSE << "f", "a", "l", "s", "e" >>)
    ELSE None

\* tags: "name" first, then every printable field, a field named "name"
\* replacing it.
event_tags(event) ==
    LET kept == { k \in DOMAIN event.fields : IsSome(tag_of(event.fields[k])) }
    IN  [k \in kept \cup { "name" } |->
            IF k \in kept THEN Unwrap(tag_of(event.fields[k])) ELSE event.name]

NameMemoryAlloc ==
    << "m", "e", "m", "o", "r", "y", "_", "a", "l", "l", "o", "c" >>

NameMemoryFree == << "m", "e", "m", "o", "r", "y", "_", "f", "r", "e", "e" >>

NameHttpRequest ==
    << "h", "t", "t", "p", "_", "r", "e", "q", "u", "e", "s", "t" >>

NameDeliver == << "d", "e", "l", "i", "v", "e", "r" >>

map_event_kind(name) ==
    IF name = NameMemoryAlloc THEN "alloc"
    ELSE IF name = NameMemoryFree THEN "free"
    ELSE IF name \in { NameHttpRequest,
                       << "p", "r", "o", "c", "_", "s", "p", "a", "w", "n" >> }
         THEN "io"
    ELSE IF name \in { << "n", "e", "t", "_", "d", "r", "o", "p" >>,
                       << "n", "e", "t", "_", "d", "e", "l", "i", "v", "e",
                          "r" >> }
         THEN "net"
    ELSE IF name \in { NameDeliver,
                       << "p", "a", "r", "t", "i", "t", "i", "o", "n" >>,
                       << "h", "e", "a", "l" >>,
                       << "c", "r", "a", "s", "h" >>,
                       << "r", "e", "s", "t", "a", "r", "t" >> }
         THEN "sched"
    ELSE "event"

\* u64::checked_sub
checked_sub(a, b) == IF a < b THEN None ELSE Some(a - b)

\* The ProfileEvent of the event at index idx (from 0).
profile_event(trace, idx) ==
    LET event == trace.events[idx + 1]
        duration == IF idx + 2 <= Len(trace.events)
                    THEN checked_sub(trace.events[idx + 2].time_ms,
                                     event.time_ms)
                    ELSE None
        bytes == IF IsSome(get_u64(event.fields, "bytes"))
                 THEN get_u64(event.fields, "bytes")
                 ELSE get_u64(event.fields, "payload_size")
        thread == get_str(event.fields, "thread")
    IN  [ t_virtual |-> event.time_ms,
          t_mono |-> Some(idx),
          kind |-> map_event_kind(event.name),
          run_id |-> trace.summary.identity.run_id,
          seed |-> trace.summary.identity.seed,
          thread |-> IF IsSome(thread) THEN Unwrap(thread)
                     ELSE << "m", "a", "i", "n" >>,
          task |-> get_str(event.fields, "task"),
          span_id |-> << "e", "-" >> \o Decimal(idx),
          parent_span_id |-> IF idx > 0
                             THEN Some(<< "e", "-" >> \o Decimal(idx - 1))
                             ELSE None,
          tags |-> event_tags(event),
          cost |-> [ duration_ms |-> duration, bytes |-> bytes,
                     count |-> Some(1) ] ]

\* A timeline that leaves out an event equal to the one before it.
timeline_of_changes(trace) ==
    LET kept == { k \in 1..Len(trace.events) :
                    k = 1 \/ trace.events[k] # trace.events[k - 1] }
        at == Ascending(kept, LessInt(kept))
    IN  [k \in 1..Len(at) |-> profile_event(trace, at[k] - 1)]

build_profile_timeline(trace) ==
    [k \in 1..Len(trace.events) |-> profile_event(trace, k - 1)]

\* t_virtual of the last event, 0 for an empty timeline.
last_t_virtual(timeline) ==
    IF timeline = << >> THEN 0 ELSE timeline[Len(timeline)].t_virtual

\* The two frames of an event's stack.
stack_parts(event) ==
    << << "f", "o", "z", "z", "y", ":", ":", "r", "u", "n", "t", "i", "m",
          "e" >>,
       << "e", "v", "e", "n", "t", ":", ":" >> \o event.tags["name"] >>

\* stack_parts.join(";")
folded_name(parts) == parts[1] \o << ";" >> \o parts[2]

\* A sample's weight: duration_ms.unwrap_or(1).max(1)
sample_weight(event) ==
    Max(IF IsSome(event.cost.duration_ms)
        THEN Unwrap(event.cost.duration_ms) ELSE 1, 1)

\* What the weights of a stack's samples add up to.
stack_total(timeline, st) ==
    SumSeq([k \in 1..Len(timeline) |->
              IF folded_name(stack_parts(timeline[k])) = st
              THEN sample_weight(timeline[k]) ELSE 0])

\* The `stacks` HashMap after the loop: stack -> summed weight.  `+=` is an
\* unchecked u64 addition: it wraps in a build without overflow checks.
cpu_stacks(timeline) ==
    LET names == { folded_name(stack_parts(timeline[k])) :
                     k \in 1..Len(timeline) }
    IN  [st \in names |-> wrapping(stack_total(timeline, st))]

\* `+=` panics in a build with overflow checks when a stack's total leaves
\* the word.
cpu_overflows(timeline) ==
    \E k \in 1..Len(timeline) :
        stack_total(timeline, folded_name(stack_parts(timeline[k]))) > U64Max

\* folded_stacks order: weight descending, then stack ascending.
LessFolded(a, b) ==
    \/ a.weight > b.weight
    \/ (a.weight = b.weight /\ LessStr(a.stack, b.stack))

\* stacks_iter is the order in which into_iter() visits `stacks`.
build_cpu_profile(trace, timeline, stacks_iter, target_os_linux) ==
    LET stacks == cpu_stacks(timeline)
        samples == [k \in 1..Len(timeline) |->
                      [ thread |-> timeline[k].thread,
                        stack |-> stack_parts(timeline[k]),
                        weight_ms |-> sample_weight(timeline[k]) ]]
        collected == [k \in 1..Len(stacks_iter) |->
                        [ stack |-> stacks_iter[k],
                          weight |-> stacks[stacks_iter[k]] ]]
    IN  [ schema_version |-> "fozzy.profile_cpu.v1",
          run_id |-> trace.summary.identity.run_id,
          collector |-> [ domain |-> "host_time",
                          primary_collector |-> "perf_event_open",
                          fallback_collector |-> "in_process_sampler",
                          linux_perf_event_open |-> target_os_linux ],
          sample_period_ms |-> 1,
          sample_count |-> Len(samples),
          samples |-> samples,
          folded_stacks |->
              StableSort(collected,
                  [i \in DOMAIN collected |-> [j \in DOMAIN collected |->
                      LessFolded(collected[i], collected[j])]]),
          symbols_ref |-> "symbols.json" ]

\* An alloc_id that is 1 where the tag is absent or does not parse.
tag_alloc_id_or_one(event) ==
    IF "alloc_id" \in DOMAIN event.tags
          /\ IsSome(parse_u64(event.tags["alloc_id"]))
    THEN Unwrap(parse_u64(event.tags["alloc_id"]))
    ELSE 1

\* tags.get("alloc_id").and_then(|v| v.parse::<u64>().ok()).unwrap_or(0)
tag_alloc_id(event) ==
    IF "alloc_id" \in DOMAIN event.tags
          /\ IsSome(parse_u64(event.tags["alloc_id"]))
    THEN Unwrap(parse_u64(event.tags["alloc_id"]))
    ELSE 0

\* The `live` HashMap and the `completed` Vec after the first k events.
RECURSIVE heap_scan(_, _)
heap_scan(timeline, k) ==
    IF k = 0 THEN [ live |-> << >>, completed |-> << >> ]
    ELSE
    LET acc == heap_scan(timeline, k - 1)
        event == timeline[k]
        alloc_id == tag_alloc_id(event)
        failed == /\ "failed_reason" \in DOMAIN event.tags
                  /\ event.tags["failed_reason"] # << >>
                  /\ event.tags["failed_reason"] # << "n", "u", "l", "l" >>
        rec == [ bytes |-> IF IsSome(event.cost.bytes)
                           THEN Unwrap(event.cost.bytes) ELSE 0,
                 callsite_hash |-> IF "callsite_hash" \in DOMAIN event.tags
                                   THEN event.tags["callsite_hash"]
                                   ELSE << "u", "n", "k", "n", "o", "w", "n" >>,
                 start |-> event.t_virtual,
                 end |-> None ]
    IN  IF event.kind = "alloc"
        THEN IF failed \/ alloc_id = 0 THEN acc
             ELSE [acc EXCEPT
                     !.live = [i \in DOMAIN @ \cup { alloc_id } |->
                                  IF i = alloc_id THEN rec ELSE @[i]]]
        ELSE IF event.kind = "free" /\ alloc_id \in DOMAIN acc.live
        THEN [ live |-> [i \in DOMAIN acc.live \ { alloc_id } |-> acc.live[i]],
               completed |-> Append(acc.completed,
                    [acc.live[alloc_id] EXCEPT !.end = Some(event.t_virtual)]) ]
        ELSE acc

\* The `hotspots` HashMap after the first k allocations of allocs.
RECURSIVE heap_hotspots(_, _)
heap_hotspots(allocs, k) ==
    IF k = 0 THEN << >>
    ELSE
    LET acc == heap_hotspots(allocs, k - 1)
        alloc == allocs[k]
        old == IF alloc.callsite_hash \in DOMAIN acc
               THEN acc[alloc.callsite_hash]
               ELSE [ callsite_hash |-> alloc.callsite_hash,
                      alloc_count |-> 0, alloc_bytes |-> 0,
                      in_use_bytes |-> 0 ]
        entry == [old EXCEPT
                    !.alloc_count = saturating_add(@, 1),
                    !.alloc_bytes = saturating_add(@, alloc.bytes),
                    !.in_use_bytes = IF alloc.end = None
                                     THEN saturating_add(@, alloc.bytes)
                                     ELSE @]
    IN  [h \in DOMAIN acc \cup { alloc.callsite_hash } |->
            IF h = alloc.callsite_hash THEN entry ELSE acc[h]]

\* fold(0, saturating_add) over the bytes of a list of allocations.
RECURSIVE sum_bytes(_)
sum_bytes(allocs) ==
    IF allocs = << >> THEN 0
    ELSE saturating_add(sum_bytes(SubSeq(allocs, 1, Len(allocs) - 1)),
                        allocs[Len(allocs)].bytes)

\* hotspot order: in_use_bytes descending, alloc_bytes descending, then
\* callsite_hash ascending.
LessHotspot(a, b) ==
    \/ a.in_use_bytes > b.in_use_bytes
    \/ /\ a.in_use_bytes = b.in_use_bytes
       /\ \/ a.alloc_bytes > b.alloc_bytes
          \/ /\ a.alloc_bytes = b.alloc_bytes
             /\ LessStr(a.callsite_hash, b.callsite_hash)

\* retention suspect order: bytes descending, then age_ms descending.
LessSuspect(a, b) ==
    \/ a.bytes > b.bytes
    \/ (a.bytes = b.bytes /\ a.age_ms > b.age_ms)

\* The lifetime bucket of a completed allocation.
lifetime_bucket(alloc) ==
    LET d == saturating_sub(IF IsSome(alloc.end) THEN Unwrap(alloc.end)
                            ELSE alloc.start, alloc.start)
    IN  IF d <= 1 THEN << "0", "-", "1", "m", "s" >>
        ELSE IF d <= 10 THEN << "2", "-", "1", "0", "m", "s" >>
        ELSE IF d <= 100 THEN << "1", "1", "-", "1", "0", "0", "m", "s" >>
        ELSE << "1", "0", "1", "m", "s", "+" >>

\* A BTreeMap<String, u64> of counts, emitted in key order.
counted(keys) ==
    LET present == { keys[k] : k \in 1..Len(keys) }
        ordered == Ascending(present, LessKey(present))
    IN  [i \in 1..Len(ordered) |->
            [ key |-> ordered[i],
              count |-> Cardinality({ k \in 1..Len(keys) :
                                        keys[k] = ordered[i] }) ]]

\* live_order is the order in which `live` is visited, hotspots_iter the
\* order in which into_values() visits `hotspots`.
build_heap_profile(trace, timeline, live_order, hotspots_iter) ==
    LET scanned == heap_scan(timeline, Len(timeline))
        live == scanned.live
        completed == scanned.completed
        live_values == [k \in 1..Len(live_order) |-> live[live_order[k]]]
        chained == live_values \o completed
        hotspots == heap_hotspots(chained, Len(chained))
        hotspot_list == [k \in 1..Len(hotspots_iter) |->
                           hotspots[hotspots_iter[k]]]
        end_t == last_t_virtual(timeline)
        suspects == [k \in 1..Len(live_order) |->
                       [ alloc_id |-> live_order[k],
                         callsite_hash |-> live[live_order[k]].callsite_hash,
                         bytes |-> live[live_order[k]].bytes,
                         age_ms |-> saturating_sub(end_t,
                                        live[live_order[k]].start) ]]
        bins == counted([k \in 1..Len(completed) |->
                            lifetime_bucket(completed[k])])
        trace_memory_in_use ==
            IF IsSome(trace.memory)
            THEN Unwrap(trace.memory).summary.in_use_bytes ELSE 0
    IN  [ schema_version |-> "fozzy.profile_heap.v1",
          run_id |-> trace.summary.identity.run_id,
          total_alloc_bytes |-> sum_bytes(chained),
          in_use_bytes |-> Max(sum_bytes(live_values), trace_memory_in_use),
          alloc_rate_per_sec |-> [ bytes |-> sum_bytes(chained),
                                   span_ms |-> Max(end_t, 1) ],
          hotspots |->
              StableSort(hotspot_list,
                  [i \in DOMAIN hotspot_list |-> [j \in DOMAIN hotspot_list |->
                      LessHotspot(hotspot_list[i], hotspot_list[j])]]),
          lifetime_histogram |->
              [k \in 1..Len(bins) |->
                  [ bucket |-> bins[k].key, count |-> bins[k].count ]],
          retention_suspects |->
              StableSort(suspects,
                  [i \in DOMAIN suspects |-> [j \in DOMAIN suspects |->
                      LessSuspect(suspects[i], suspects[j])]]) ]

\* The keys of the `hotspots` map: the callsite hashes of all allocations.
hotspot_keys(timeline) ==
    LET scanned == heap_scan(timeline, Len(timeline))
    IN  { scanned.live[i].callsite_hash : i \in DOMAIN scanned.live }
        \cup { scanned.completed[k].callsite_hash :
                 k \in 1..Len(scanned.completed) }

wait_reason(kind) ==
    IF kind = "io" THEN << "i", "o" >>
    ELSE IF kind = "sched" THEN << "s", "c", "h", "e", "d" >>
    ELSE IF kind \in { "alloc", "free" } THEN << "h", "e", "a", "p" >>
    ELSE IF kind = "net" THEN << "p", "a", "y", "l", "o", "a", "d" >>
    ELSE IF kind = "sample" THEN << "c", "p", "u" >>
    ELSE << "o", "t", "h", "e", "r" >>

\* A critical path with the shortest edge first.
LessEdgeAscending(a, b) ==
    \/ a.duration_ms < b.duration_ms
    \/ (a.duration_ms = b.duration_ms /\ LessStr(a.from_span, b.from_span))

\* critical path order: duration_ms descending, then from_span ascending.
LessEdge(a, b) ==
    \/ a.duration_ms > b.duration_ms
    \/ (a.duration_ms = b.duration_ms /\ LessStr(a.from_span, b.from_span))

\* sorted[idx] with idx = round((len - 1) * p), p given in hundredths.
\* A percentile whose index is truncated.
percentile_floor(sorted, p100) ==
    IF sorted = << >> THEN 0 ELSE sorted[((Len(sorted) - 1) * p100) \div 100 + 1]

\* percentile: the element at index round((len - 1) * p), p in hundredths.
percentile(sorted, p100) ==
    IF sorted = << >> THEN 0
    ELSE LET idx == ((Len(sorted) - 1) * p100 + 50) \div 100
         IN  sorted[(IF idx < Len(sorted) - 1 THEN idx ELSE Len(sorted) - 1) + 1]

build_latency_profile(trace, timeline) ==
    LET n == IF Len(timeline) = 0 THEN 0 ELSE Len(timeline) - 1
        edges == [k \in 1..n |->
                    [ from_span |-> timeline[k].span_id,
                      to_span |-> timeline[k + 1].span_id,
                      duration_ms |-> saturating_sub(timeline[k + 1].t_virtual,
                                                     timeline[k].t_virtual),
                      reason |-> wait_reason(timeline[k + 1].kind) ]]
        deltas == StableSort([k \in 1..n |-> edges[k].duration_ms],
                    [i \in 1..n |-> [j \in 1..n |->
                        edges[i].duration_ms < edges[j].duration_ms]])
        total == SumSeq(deltas)
        squares == SumSeq([k \in 1..n |-> deltas[k] * deltas[k]])
        reasons == counted([k \in 1..n |-> edges[k].reason])
    IN  [ schema_version |-> "fozzy.profile_latency.v1",
          run_id |-> trace.summary.identity.run_id,
          distribution |->
              IF n = 0
              THEN [ count |-> 0, p50_ms |-> 0, p95_ms |-> 0, p99_ms |-> 0,
                     max_ms |-> 0, variance |-> [ num |-> 0, den |-> 1 ] ]
              ELSE [ count |-> n,
                     p50_ms |-> percentile(deltas, 50),
                     p95_ms |-> percentile(deltas, 95),
                     p99_ms |-> percentile(deltas, 99),
                     max_ms |-> deltas[n],
                     variance |-> [ num |-> n * squares - total * total,
                                    den |-> n * n ] ],
          critical_path |->
              StableSort(edges,
                  [i \in 1..n |-> [j \in 1..n |->
                      LessEdge(edges[i], edges[j])]]),
          wait_reasons |->
              [k \in 1..Len(reasons) |->
                  [ reason |-> reasons[k].key, count |-> reasons[k].count ]] ]

build_symbols_map(trace, timeline) ==
    LET names == { timeline[k].tags["name"] : k \in 1..Len(timeline) }
    IN
    [ schema_version |-> "fozzy.profile_symbols.v1",
      run_id |-> trace.summary.identity.run_id,
      modules |-> << [ name |-> << "f", "o", "z", "z", "y", "-", "r", "u",
                                   "n", "t", "i", "m", "e" >>,
                       build_id |-> trace.engine.version \o << "-" >>
                                    \o (IF IsSome(trace.engine.commit)
                                        THEN Unwrap(trace.engine.commit)
                                        ELSE << "d", "e", "v" >>),
                       symbols |-> Ascending(names, LessKey(names)) ] >> ]

\* fold(0, saturating_add) over the weights of the folded stacks.
RECURSIVE sum_weights(_)
sum_weights(folded) ==
    IF folded = << >> THEN 0
    ELSE saturating_add(sum_weights(SubSeq(folded, 1, Len(folded) - 1)),
                        folded[Len(folded)].weight)

\* confidence is kept in tenths.
build_profile_metrics(trace, timeline, cpu, heap, latency) ==
    [ schema_version |-> "fozzy.profile_metrics.v1",
      run_id |-> trace.summary.identity.run_id,
      virtual_time_ms |-> last_t_virtual(timeline),
      host_time_ms |-> trace.summary.duration_ms,
      cpu_time_ms |-> sum_weights(cpu.folded_stacks),
      alloc_bytes |-> heap.total_alloc_bytes,
      in_use_bytes |-> heap.in_use_bytes,
      p50_latency_ms |-> latency.distribution.p50_ms,
      p95_latency_ms |-> latency.distribution.p95_ms,
      p99_latency_ms |-> latency.distribution.p99_ms,
      max_latency_ms |-> latency.distribution.max_ms,
      io_ops |-> Cardinality({ k \in 1..Len(timeline) :
                                 timeline[k].kind \in { "io", "net" } }),
      sched_ops |-> Cardinality({ k \in 1..Len(timeline) :
                                    timeline[k].kind = "sched" }),
      confidence |-> IF trace.summary.duration_ms = 0 THEN Some(0)
                     ELSE Some(8) ]

\* The six documents write_profile_artifacts_from_trace writes; iters holds
\* the orders in which this run's three HashMaps are visited.
write_profile_artifacts_from_trace(trace, iters, target_os_linux) ==
    LET timeline == build_profile_timeline(trace)
        cpu == build_cpu_profile(trace, timeline, iters.stacks,
                                 target_os_linux)
        heap == build_heap_profile(trace, timeline, iters.live,
                                   iters.hotspots)
        latency == build_latency_profile(trace, timeline)
        symbols == build_symbols_map(trace, timeline)
        metrics == build_profile_metrics(trace, timeline, cpu, heap, latency)
    IN  [ timeline |-> timeline, cpu |-> cpu, heap |-> heap,
          latency |-> latency, metrics |-> metrics, symbols |-> symbols ]


(***************************************************************************)
(* The memory capability as a state machine.                               *)
(*                                                                         *)
(* mem[i] is a MemoryState.  A run has one instance; a paired run has two, *)
(* created with the same options and driven by the same calls.  What is    *)
(* said of one MemoryState is said of instance 1.                          *)
(***************************************************************************)
MemoryOptions(limit_mb, fail_after, wave, seed) ==
    [ limit_mb |-> limit_mb, fail_after_allocs |-> fail_after,
      pressure_wave |-> wave, fragmentation_seed |-> seed ]

\* --mem-pressure-wave "1,2"
Wave12 == << "1", ",", "2" >>

\* The MemoryOptions the runs are created with: every combination of no
\* limit, a limit of 1 MiB and a limit whose byte count passes the word with
\* no / some fail_after_allocs budget; a pressure wave without and with a
\* limit; a fragmentation seed.
OptionSets ==
    { MemoryOptions(l, f, None, None) :
          l \in { None, Some(1), Some(2) }, f \in { None, Some(2) } }
    \cup { MemoryOptions(l, None, Some(Wave12), None) : l \in { None, Some(1) } }
    \cup { MemoryOptions(None, None, None, Some(7)) }

\* The MemoryOptions of the paired runs.
PairOptionSets ==
    { MemoryOptions(None, None, None, None),
      MemoryOptions(Some(1), Some(2), None, None),
      MemoryOptions(Some(1), None, Some(Wave12), None),
      MemoryOptions(None, None, None, Some(7)) }

\* Arguments of the calls.
Bytes == { 100, BytesPerMb }

\* (callsite label, tag) of an allocate call.
AllocSites == { << "scenario:step", Some("hot") >>, << "engine:io", None >> }

CheckpointNames == { "mid" }

\* The scenario engine passes its virtual clock as time_ms; the model's clock
\* advances by 4 ms with every call.
Clock(calls) == 4 * (calls + 1)

\* Ids a caller passes to free.
FreeIds == { 1, 2 }

VARIABLES
    mem,      \* mem[i]: the MemoryState of instance i
    phase,    \* "running", then "finalized" once finalize consumed the states
    call,     \* the last call made (on every instance) and its arguments
    ret,      \* ret[i]: what the last call returned on instance i
    report,   \* report[i]: what finalize returned on instance i
    obs,      \* what the caller of instance 1 has seen returned so far
    trace,    \* the TraceFile the profiler is given
    host,     \* the build of the profiler
    docs,     \* docs[r]: the documents its r-th run on the trace wrote
    codec,    \* the trace file at a path, what was read from it and rewritten
    calc,     \* one reducer applied alone to the trace, and the build it ran in
    fsys,     \* the file system a profile command works on
    cmd,      \* the profile command that was run and what it returned
    shr,      \* what the shrink operation returned for the trace
    art       \* a derived artifact file, the process writing it and a reader

memvars == << mem, phase, call, ret, report, obs >>

profvars == << trace, host, docs >>

auxvars == << codec, calc, fsys, cmd, shr, art >>

NoReport == [ panicked |-> FALSE, schema_version |-> "" ]

MemInitWith(insts, optionSets) ==
    /\ \E options \in optionSets : mem = [i \in insts |-> new(options)]
    /\ phase = "running"
    /\ call = [ op |-> "new" ]
    /\ ret = [i \in insts |-> None]
    /\ report = [i \in insts |-> NoReport]
    /\ obs = [ calls |-> 0, alloc_calls |-> 0, log |-> << >>,
               peak_seen |-> 0 ]

CanCall == phase = "running" /\ obs.calls < MaxOps

Allocate ==
    /\ CanCall
    /\ \E bytes \in Bytes, site \in AllocSites :
          LET callsite == site[1]
              tag == site[2]
              time_ms == Clock(obs.calls)
              r == [i \in DOMAIN mem |->
                      allocate(mem[i], bytes, tag, callsite, time_ms)]
          IN  /\ mem' = [i \in DOMAIN mem |-> r[i].st]
              /\ ret' = [i \in DOMAIN mem |-> r[i].out]
              /\ call' = [ op |-> "allocate", bytes |-> bytes, tag |-> tag,
                           callsite |-> callsite, time_ms |-> time_ms ]
              /\ obs' = [obs EXCEPT
                   !.calls = @ + 1,
                   !.alloc_calls = @ + 1,
                   !.log = IF IsSome(r[1].out.alloc_id)
                           THEN Append(@, [ op |-> "allocate",
                                    id |-> Unwrap(r[1].out.alloc_id),
                                    callsite_hash |-> r[1].out.callsite_hash ])
                           ELSE @,
                   !.peak_seen = IF IsSome(r[1].out.alloc_id)
                                 THEN Max(@, r[1].st.in_use_bytes)
                                 ELSE @]
    /\ UNCHANGED << phase, report, profvars, auxvars >>

Free ==
    /\ CanCall
    /\ \E alloc_id \in FreeIds :
          LET time_ms == Clock(obs.calls)
              r == [i \in DOMAIN mem |-> free(mem[i], alloc_id, time_ms)]
          IN  /\ mem' = [i \in DOMAIN mem |-> r[i].st]
              /\ ret' = [i \in DOMAIN mem |-> r[i].out]
              /\ call' = [ op |-> "free", alloc_id |-> alloc_id,
                           time_ms |-> time_ms ]
              /\ obs' = [obs EXCEPT
                   !.calls = @ + 1,
                   !.log = IF r[1].out
                           THEN Append(@, [ op |-> "free", id |-> alloc_id ])
                           ELSE @]
    /\ UNCHANGED << phase, report, profvars, auxvars >>

Checkpoint ==
    /\ CanCall
    /\ \E name \in CheckpointNames :
          LET time_ms == Clock(obs.calls)
          IN  /\ mem' = [i \in DOMAIN mem |->
                            checkpoint(mem[i], name, time_ms)]
              /\ call' = [ op |-> "checkpoint", name |-> name,
                           time_ms |-> time_ms ]
    /\ ret' = [i \in DOMAIN mem |-> None]
    /\ obs' = [obs EXCEPT !.calls = @ + 1]
    /\ UNCHANGED << phase, report, profvars, auxvars >>

\* One order of visiting `live` for each instance.
LiveOrders ==
    { ord \in [DOMAIN mem ->
                 UNION { live_iter(mem[i].live) : i \in DOMAIN mem }] :
        \A i \in DOMAIN mem : ord[i] \in live_iter(mem[i].live) }

\* finalize(self) on every instance, all of one build (with or without
\* overflow checks).
Finalize ==
    /\ phase = "running"
    /\ \E overflow_checks \in BOOLEAN, ord \in LiveOrders :
          report' = [i \in DOMAIN mem |->
                        finalize(mem[i], ord[i], overflow_checks)]
    /\ phase' = "finalized"
    /\ call' = [ op |-> "finalize" ]
    /\ UNCHANGED << mem, ret, obs, profvars, auxvars >>

MemNext == Allocate \/ Free \/ Checkpoint \/ Finalize

(***************************************************************************)
(* The profiler as a state machine: it is given a trace and runs           *)
(* write_profile_artifacts_from_trace on it twice (load_profile_bundle     *)
(* rewrites the artifacts whenever it finds the trace).                    *)
(***************************************************************************)
MaxEvents == 3

EventTimes == { 0, 3 }

AllocFields(alloc_id, bytes, callsite_hash) ==
    [ alloc_id |-> JsonNumber(alloc_id), bytes |-> JsonNumber(bytes),
      callsite_hash |-> JsonString(callsite_hash) ]

\* The events a trace is made of, without their times.
EventShapes ==
    { [ name |-> NameMemoryAlloc,
        fields |-> AllocFields(1, 64, Blake3Hex("scenario:step")) ],
      [ name |-> NameMemoryAlloc,
        fields |-> AllocFields(2, 64, Blake3Hex("scenario:step")) ],
      [ name |-> NameMemoryAlloc,
        fields |-> AllocFields(2, 128, Blake3Hex("engine:io")) ],
      [ name |-> NameMemoryAlloc,
        fields |-> [ bytes |-> JsonNumber(64),
                     failed_reason |-> JsonString(<< "l", "i", "m", "i", "t",
                                                     "_", "m", "b" >>) ] ],
      [ name |-> NameMemoryFree, fields |-> [ alloc_id |-> JsonNumber(1) ] ],
      [ name |-> NameMemoryFree, fields |-> [ alloc_id |-> JsonNumber(2) ] ],
      [ name |-> NameHttpRequest, fields |-> << >> ],
      [ name |-> NameDeliver, fields |-> << >> ] }

TraceEvents ==
    { [ time_ms |-> t, name |-> e.name, fields |-> e.fields ] :
        t \in EventTimes, e \in EventShapes }

\* What a trace carries besides its events.
TraceHeaders ==
    { [ summary |-> [ identity |-> [ run_id |-> "r1", seed |-> 7 ],
                      duration_ms |-> 10 ],
        memory |-> None,
        engine |-> [ version |-> << "0", ".", "1" >>, commit |-> None ] ],
      [ summary |-> [ identity |-> [ run_id |-> "r1", seed |-> 7 ],
                      duration_ms |-> 0 ],
        memory |-> Some([ summary |-> [ in_use_bytes |-> 64 ] ]),
        engine |-> [ version |-> << "0", ".", "1" >>,
                     commit |-> Some(<< "a", "b" >>) ] ] }

TraceWith(header, events) ==
    [ events |-> events, summary |-> header.summary,
      memory |-> header.memory, engine |-> header.engine ]

Traces ==
    { TraceWith(header, events) :
        header \in TraceHeaders,
        events \in UNION { [1..n -> TraceEvents] : n \in 0..MaxEvents } }

\* No profiler at work.
ProfileIdle ==
    /\ trace = TraceWith(CHOOSE h \in TraceHeaders : h.memory = None, << >>)
    /\ host = [ target_os_linux |-> TRUE ]
    /\ docs = << >>

\* No memory capability at work.
MemIdle == MemInitWith({ 1 }, { MemoryOptions(None, None, None, None) })

\* One run of write_profile_artifacts_from_trace; each of its HashMaps is
\* visited in an order of its own.
WriteProfileArtifacts ==
    /\ Len(docs) < 2
    /\ LET timeline == build_profile_timeline(trace)
       IN  \E stacks_iter \in hash_iter(DOMAIN cpu_stacks(timeline)),
              live_order \in
                  hash_iter(DOMAIN heap_scan(timeline, Len(timeline)).live),
              hotspots_iter \in hash_iter(hotspot_keys(timeline)) :
                docs' = Append(docs,
                    write_profile_artifacts_from_trace(trace,
                        [ stacks |-> stacks_iter, live |-> live_order,
                          hotspots |-> hotspots_iter ],
                        host.target_os_linux))
    /\ UNCHANGED << trace, host, memvars, auxvars >>

(***************************************************************************)
(* compute_diff (cmd/profile_cmd.rs).                                      *)
(*                                                                         *)
(* An f64 holds 53 significant bits of a 64-bit word; with the word of the *)
(* model that is 10 significant bits of 21.  Values are integers here, so  *)
(* an f64 is kept as the integer it holds.                                 *)
(***************************************************************************)
\* The unit in the last place of the f64 nearest to n >= 0.
RECURSIVE f64_ulp(_)
f64_ulp(n) == IF n < 1024 THEN 1 ELSE 2 * f64_ulp(n \div 2)

\* Round to the nearest f64, ties to even.
f64_round(n) ==
    LET a == IF n < 0 THEN -n ELSE n
        ulp == f64_ulp(a)
        low == (a \div ulp) * ulp
        r == IF 2 * (a - low) < ulp THEN low
             ELSE IF 2 * (a - low) > ulp THEN low + ulp
             ELSE IF (low \div ulp) % 2 = 0 THEN low ELSE low + ulp
    IN  IF n < 0 THEN -r ELSE r

\* `as f64` of a u64.
as_f64(n) == f64_round(n)

f64_abs(x) == IF x < 0 THEN -x ELSE x

MetricCpuTimeMs == << "c", "p", "u", "_", "t", "i", "m", "e", "_", "m", "s" >>

MetricAllocBytes == << "a", "l", "l", "o", "c", "_", "b", "y", "t", "e", "s" >>

MetricInUseBytes ==
    << "i", "n", "_", "u", "s", "e", "_", "b", "y", "t", "e", "s" >>

MetricLatencyMs(which) ==
    which \o << "_", "l", "a", "t", "e", "n", "c", "y", "_", "m", "s" >>

MetricIoOps == << "i", "o", "_", "o", "p", "s" >>

MetricSchedOps == << "s", "c", "h", "e", "d", "_", "o", "p", "s" >>

\* The (metric, left, right) pairs compute_diff makes for a domain.
diff_pairs(domain, l, r) ==
    IF domain = "cpu"
    THEN << << MetricCpuTimeMs, as_f64(l.cpu_time_ms), as_f64(r.cpu_time_ms) >> >>
    ELSE IF domain = "heap"
    THEN << << MetricAllocBytes, as_f64(l.alloc_bytes), as_f64(r.alloc_bytes) >>,
            << MetricInUseBytes, as_f64(l.in_use_bytes), as_f64(r.in_use_bytes) >> >>
    ELSE IF domain = "latency"
    THEN << << MetricLatencyMs(<< "p", "9", "5" >>),
               as_f64(l.p95_latency_ms), as_f64(r.p95_latency_ms) >>,
            << MetricLatencyMs(<< "p", "9", "9" >>),
               as_f64(l.p99_latency_ms), as_f64(r.p99_latency_ms) >>,
            << MetricLatencyMs(<< "m", "a", "x" >>),
               as_f64(l.max_latency_ms), as_f64(r.max_latency_ms) >> >>
    ELSE IF domain = "io"
    THEN << << MetricIoOps, as_f64(l.io_ops), as_f64(r.io_ops) >> >>
    ELSE IF domain = "sched"
    THEN << << MetricSchedOps, as_f64(l.sched_ops), as_f64(r.sched_ops) >> >>
    ELSE << >>

\* The finding pushed for one pair; delta_pct, the one value computed by a
\* division, is kept as its operands.
regression_finding(domain, pair) ==
    LET lv == pair[2]
        rv == pair[3]
        delta == f64_round(rv - lv)
    IN  [ domain |-> domain, metric |-> pair[1], left_value |-> lv,
          right_value |-> rv, delta |-> delta,
          delta_pct |-> IF lv = 0
                        THEN [ num |-> IF rv = 0 THEN 0 ELSE 100, den |-> 1 ]
                        ELSE [ num |-> delta * 100, den |-> lv ] ]

\* The findings in the order they are pushed.
RECURSIVE diff_findings(_, _, _)
diff_findings(domains, l, r) ==
    IF domains = << >> THEN << >>
    ELSE LET pairs == diff_pairs(Head(domains), l, r)
         IN  [k \in DOMAIN pairs |-> regression_finding(Head(domains), pairs[k])]
             \o diff_findings(Tail(domains), l, r)

\* An order on findings that looks at the signed delta.
LessFindingSigned(a, b) ==
    \/ a.delta > b.delta
    \/ (a.delta = b.delta /\ LessStr(a.metric, b.metric))

\* regressions order: |delta| descending, then metric ascending.
LessFinding(a, b) ==
    \/ f64_abs(a.delta) > f64_abs(b.delta)
    \/ (f64_abs(a.delta) = f64_abs(b.delta) /\ LessStr(a.metric, b.metric))

compute_diff(left, right, domains, l, r) ==
    LET pushed == diff_findings(domains, l, r)
    IN  [ schema_version |-> "fozzy.profile_diff.v1",
          left |-> left, right |-> right, domains |-> domains,
          regressions |->
              StableSort(pushed,
                  [i \in DOMAIN pushed |-> [j \in DOMAIN pushed |->
                      LessFinding(pushed[i], pushed[j])]]) ]

\* normalize_domains: the flags in a fixed order, all domains when no flag
\* is set.
normalize_domains(cpu, heap, latency, io, sched) ==
    IF ~cpu /\ ~heap /\ ~latency /\ ~io /\ ~sched
    THEN << "cpu", "io", "sched", "heap", "latency" >>
    ELSE (IF cpu THEN << "cpu" >> ELSE << >>)
         \o (IF heap THEN << "heap" >> ELSE << >>)
         \o (IF latency THEN << "latency" >> ELSE << >>)
         \o (IF io THEN << "io" >> ELSE << >>)
         \o (IF sched THEN << "sched" >> ELSE << >>)

(***************************************************************************)
(* The trace file codec (tracefile.rs).                                    *)
(*                                                                         *)
(* A file's JSON text is kept as the tree of its tokens: a node is         *)
(* [kind, v] where v is the text of a scalar (the digits of a number, the  *)
(* escaped characters of a string), the items of an array or the           *)
(* << key, node >> members of an object in the order they are written.     *)
(* White space between tokens is not kept.  A Result is Ok(v) or Err.      *)
(***************************************************************************)
Ok(v) == << v >>

Err == << >>

IsOk(r) == Len(r) = 1

\* A writer that copies the string as it is.
escape_verbatim(s) == s

\* serde_json writes '"' and '\' of a string behind a '\'.
RECURSIVE escape(_)
escape(s) ==
    IF s = << >> THEN << >>
    ELSE (IF Head(s) \in { "\"", "\\" } THEN << "\\", Head(s) >>
          ELSE << Head(s) >>) \o escape(Tail(s))

\* serde_json reads the character behind a '\' as itself; a lone '\' at the
\* end of the text is an error.
RECURSIVE unescape(_)
unescape(s) ==
    IF s = << >> THEN Ok(<< >>)
    ELSE IF Head(s) = "\\"
         THEN IF Len(s) < 2 THEN Err
              ELSE LET rest == unescape(Tail(Tail(s)))
                   IN  IF IsOk(rest) THEN Ok(<< s[2] >> \o Unwrap(rest)) ELSE Err
    ELSE LET rest == unescape(Tail(s))
         IN  IF IsOk(rest) THEN Ok(<< Head(s) >> \o Unwrap(rest)) ELSE Err

ser_null == [ kind |-> "null", v |-> << >> ]

ser_u64(n) == [ kind |-> "number", v |-> Decimal(n) ]

ser_str(s) == [ kind |-> "string", v |-> escape(s) ]

ser_seq(items) == [ kind |-> "array", v |-> items ]

ser_struct(members) == [ kind |-> "object", v |-> members ]

\* Option<T>: None is written as null.
ser_option(o) == IF IsSome(o) THEN Unwrap(o) ELSE ser_null

\* An unsigned integer: digits only, and a value that fits the word.
de_u64(node) ==
    IF node.kind = "number" /\ node.v # << >> THEN ParseDigits(node.v, 0)
    ELSE Err

de_str(node) == IF node.kind = "string" THEN unescape(node.v) ELSE Err

\* The members of an object that carry a key.
members_of(node, key) == { i \in DOMAIN node.v : node.v[i][1] = key }

\* A derived Deserialize visits the members in turn: a key met twice is an
\* error, a key it does not know is skipped.
duplicate_field(node, keys) ==
    \E key \in keys : Cardinality(members_of(node, key)) > 1

has_field(node, key) == members_of(node, key) # {}

field(node, key) == node.v[CHOOSE i \in members_of(node, key) : TRUE][2]

\* A field of type Option<T>: absent or null is None.
is_none_field(node, key) ==
    ~has_field(node, key) \/ field(node, key).kind = "null"

\* serde_json::Value, as far as trace events use it.
ser_value(value) ==
    IF value.kind = "number" THEN ser_u64(value.v)
    ELSE IF value.kind = "string" THEN ser_str(value.v)
    ELSE ser_null

de_value(node) ==
    IF node.kind = "number"
    THEN LET n == de_u64(node) IN IF IsOk(n) THEN Ok(JsonNumber(Unwrap(n))) ELSE Err
    ELSE IF node.kind = "string"
    THEN LET s == de_str(node) IN IF IsOk(s) THEN Ok(JsonString(Unwrap(s))) ELSE Err
    ELSE IF node.kind = "null" THEN Ok([ kind |-> "null", v |-> << >> ])
    ELSE Err

\* The field names of the model's events, in the order a serde_json::Map
\* (a BTreeMap) keeps them.
FieldKeys == << "alloc_id", "bytes", "callsite_hash", "failed_reason" >>

map_iter(fields) == SelectSeq(FieldKeys, LAMBDA k : k \in DOMAIN fields)

ser_map(fields) ==
    LET keys == map_iter(fields)
    IN  ser_struct([i \in DOMAIN keys |-> << keys[i], ser_value(fields[keys[i]]) >>])

\* Map<String, Value>: a later member replaces an earlier one of its key.
de_map(node) ==
    IF node.kind # "object" THEN Err
    ELSE LET keys == { node.v[i][1] : i \in DOMAIN node.v }
             last(key) == CHOOSE i \in members_of(node, key) :
                              \A j \in members_of(node, key) : j <= i
             values == [key \in keys |-> de_value(node.v[last(key)][2])]
         IN  IF \E key \in keys : ~IsOk(values[key]) THEN Err
             ELSE Ok([key \in keys |-> Unwrap(values[key])])

\* TraceEvent { time_ms, name, #[serde(default)] fields }.
ser_trace_event(e) ==
    ser_struct(<< << "time_ms", ser_u64(e.time_ms) >>,
                  << "name", ser_str(e.name) >>,
                  << "fields", ser_map(e.fields) >> >>)

de_trace_event(node) ==
    IF node.kind # "object" THEN Err
    ELSE IF duplicate_field(node, { "time_ms", "name", "fields" }) THEN Err
    ELSE IF ~has_field(node, "time_ms") \/ ~has_field(node, "name") THEN Err
    ELSE LET time_ms == de_u64(field(node, "time_ms"))
             name == de_str(field(node, "name"))
             fields == IF has_field(node, "fields")
                       THEN de_map(field(node, "fields")) ELSE Ok(<< >>)
         IN  IF ~IsOk(time_ms) \/ ~IsOk(name) \/ ~IsOk(fields) THEN Err
             ELSE Ok([ time_ms |-> Unwrap(time_ms), name |-> Unwrap(name),
                       fields |-> Unwrap(fields) ])

\* The text of the variant names of Decision (tag = "kind", snake_case).
KindRandU64 == << "r", "a", "n", "d", "_", "u", "6", "4" >>

KindTimeSleepMs ==
    << "t", "i", "m", "e", "_", "s", "l", "e", "e", "p", "_", "m", "s" >>

KindStep == << "s", "t", "e", "p" >>

\* Decision::{RandU64 { value }, TimeSleepMs { ms }, Step { index, name }}.
ser_decision(d) ==
    IF d.kind = KindRandU64
    THEN ser_struct(<< << "kind", ser_str(d.kind) >>,
                       << "value", ser_u64(d.value) >> >>)
    ELSE IF d.kind = KindTimeSleepMs
    THEN ser_struct(<< << "kind", ser_str(d.kind) >>,
                       << "ms", ser_u64(d.ms) >> >>)
    ELSE ser_struct(<< << "kind", ser_str(d.kind) >>,
                       << "index", ser_u64(d.index) >>,
                       << "name", ser_str(d.name) >> >>)

de_decision(node) ==
    IF node.kind # "object" \/ ~has_field(node, "kind") THEN Err
    ELSE IF duplicate_field(node, { "kind", "value", "ms", "index", "name" })
    THEN Err
    ELSE LET kind == de_str(field(node, "kind"))
         IN  IF ~IsOk(kind) THEN Err
             ELSE IF Unwrap(kind) = KindRandU64
             THEN IF ~has_field(node, "value") THEN Err
                  ELSE LET value == de_u64(field(node, "value"))
                       IN  IF ~IsOk(value) THEN Err
                           ELSE Ok([ kind |-> KindRandU64,
                                     value |-> Unwrap(value) ])
             ELSE IF Unwrap(kind) = KindTimeSleepMs
             THEN IF ~has_field(node, "ms") THEN Err
                  ELSE LET ms == de_u64(field(node, "ms"))
                       IN  IF ~IsOk(ms) THEN Err
                           ELSE Ok([ kind |-> KindTimeSleepMs, ms |-> Unwrap(ms) ])
             ELSE IF Unwrap(kind) = KindStep
             THEN IF ~has_field(node, "index") \/ ~has_field(node, "name")
                  THEN Err
                  ELSE LET index == de_u64(field(node, "index"))
                           name == de_str(field(node, "name"))
                       IN  IF ~IsOk(index) \/ ~IsOk(name) THEN Err
                           ELSE Ok([ kind |-> KindStep, index |-> Unwrap(index),
                                     name |-> Unwrap(name) ])
             ELSE Err

\* The text of the variant names of Step (tag = "type", snake_case).
TypeUnfreeze == << "u", "n", "f", "r", "e", "e", "z", "e" >>

\* Step::{RandU64 { #[serde(default)] key: Option<String> }, Unfreeze}.
ser_step(s) ==
    IF s.type = KindRandU64
    THEN ser_struct(<< << "type", ser_str(s.type) >>,
                       << "key", ser_option([i \in DOMAIN s.key |-> ser_str(s.key[i])]) >> >>)
    ELSE ser_struct(<< << "type", ser_str(s.type) >> >>)

de_step(node) ==
    IF node.kind # "object" \/ ~has_field(node, "type") THEN Err
    ELSE IF duplicate_field(node, { "type", "key" }) THEN Err
    ELSE LET type == de_str(field(node, "type"))
         IN  IF ~IsOk(type) THEN Err
             ELSE IF Unwrap(type) = KindRandU64
             THEN IF is_none_field(node, "key")
                  THEN Ok([ type |-> KindRandU64, key |-> None ])
                  ELSE LET key == de_str(field(node, "key"))
                       IN  IF ~IsOk(key) THEN Err
                           ELSE Ok([ type |-> KindRandU64,
                                     key |-> Some(Unwrap(key)) ])
             ELSE IF Unwrap(type) = TypeUnfreeze
             THEN Ok([ type |-> TypeUnfreeze ])
             ELSE Err

\* ScenarioV1Steps { version, name, steps }.
ser_scenario(s) ==
    ser_struct(<< << "version", ser_u64(s.version) >>,
                  << "name", ser_str(s.name) >>,
                  << "steps", ser_seq([i \in DOMAIN s.steps |-> ser_step(s.steps[i])]) >> >>)

de_scenario(node) ==
    IF node.kind # "object" THEN Err
    ELSE IF duplicate_field(node, { "version", "name", "steps" }) THEN Err
    ELSE IF \E key \in { "version", "name", "steps" } : ~has_field(node, key)
    THEN Err
    ELSE IF field(node, "steps").kind # "array" THEN Err
    ELSE LET version == de_u64(field(node, "version"))
             name == de_str(field(node, "name"))
             items == field(node, "steps").v
             steps == [i \in DOMAIN items |-> de_step(items[i])]
         IN  IF ~IsOk(version) \/ ~IsOk(name) THEN Err
             ELSE IF \E i \in DOMAIN steps : ~IsOk(steps[i]) THEN Err
             ELSE Ok([ version |-> Unwrap(version), name |-> Unwrap(name),
                       steps |-> [i \in DOMAIN steps |-> Unwrap(steps[i])] ])

\* VersionInfo { version, commit }.
ser_version_info(e) ==
    ser_struct(<< << "version", ser_str(e.version) >>,
                  << "commit", ser_option([i \in DOMAIN e.commit |-> ser_str(e.commit[i])]) >> >>)

de_version_info(node) ==
    IF node.kind # "object" THEN Err
    ELSE IF duplicate_field(node, { "version", "commit" }) THEN Err
    ELSE IF ~has_field(node, "version") THEN Err
    ELSE LET version == de_str(field(node, "version"))
             commit == IF is_none_field(node, "commit") THEN Ok(None)
                       ELSE LET c == de_str(field(node, "commit"))
                            IN  IF IsOk(c) THEN Ok(Some(Unwrap(c))) ELSE Err
         IN  IF ~IsOk(version) \/ ~IsOk(commit) THEN Err
             ELSE Ok([ version |-> Unwrap(version), commit |-> Unwrap(commit) ])

\* RunMode, a unit-variant enum written as the string of its variant.
RunModes ==
    { << "r", "u", "n" >>, << "f", "u", "z", "z" >>,
      << "e", "x", "p", "l", "o", "r", "e" >>,
      << "r", "e", "p", "l", "a", "y" >>, << "s", "h", "r", "i", "n", "k" >> }

de_run_mode(node) ==
    LET mode == de_str(node)
    IN  IF IsOk(mode) /\ Unwrap(mode) \in RunModes THEN mode ELSE Err

\* RunSummary, as far as the profiler reads it:
\* { identity: { run_id, seed }, duration_ms }.
ser_run_summary(s) ==
    ser_struct(<< << "identity",
                     ser_struct(<< << "run_id", ser_str(s.identity.run_id) >>,
                                   << "seed", ser_u64(s.identity.seed) >> >>) >>,
                  << "duration_ms", ser_u64(s.duration_ms) >> >>)

de_run_summary(node) ==
    IF node.kind # "object" THEN Err
    ELSE IF duplicate_field(node, { "identity", "duration_ms" }) THEN Err
    ELSE IF ~has_field(node, "identity") \/ ~has_field(node, "duration_ms")
    THEN Err
    ELSE LET identity == field(node, "identity")
         IN  IF identity.kind # "object" THEN Err
             ELSE IF duplicate_field(identity, { "run_id", "seed" }) THEN Err
             ELSE IF ~has_field(identity, "run_id") \/ ~has_field(identity, "seed")
             THEN Err
             ELSE LET run_id == de_str(field(identity, "run_id"))
                      seed == de_u64(field(identity, "seed"))
                      duration_ms == de_u64(field(node, "duration_ms"))
                  IN  IF ~IsOk(run_id) \/ ~IsOk(seed) \/ ~IsOk(duration_ms)
                      THEN Err
                      ELSE Ok([ identity |-> [ run_id |-> Unwrap(run_id),
                                               seed |-> Unwrap(seed) ],
                                duration_ms |-> Unwrap(duration_ms) ])

\* MemoryRunReport, as far as the profiler reads it:
\* { summary: { in_use_bytes } }.
ser_memory(m) ==
    ser_struct(<< << "summary",
                     ser_struct(<< << "in_use_bytes",
                                      ser_u64(m.summary.in_use_bytes) >> >>) >> >>)

de_memory(node) ==
    IF node.kind # "object" THEN Err
    ELSE IF duplicate_field(node, { "summary" }) \/ ~has_field(node, "summary")
    THEN Err
    ELSE LET summary == field(node, "summary")
         IN  IF summary.kind # "object" THEN Err
             ELSE IF duplicate_field(summary, { "in_use_bytes" }) THEN Err
             ELSE IF ~has_field(summary, "in_use_bytes") THEN Err
             ELSE LET n == de_u64(field(summary, "in_use_bytes"))
                  IN  IF ~IsOk(n) THEN Err
                      ELSE Ok([ summary |-> [ in_use_bytes |-> Unwrap(n) ] ])

\* The fields of TraceFile in the order the struct declares them.
TraceFileKeys ==
    { "format", "version", "engine", "mode", "scenario_path", "scenario",
      "memory", "decisions", "events", "summary" }

\* Serialize for TraceFile (derived).
ser_trace_file(t) ==
    ser_struct(<<
        << "format", ser_str(t.format) >>,
        << "version", ser_u64(t.version) >>,
        << "engine", ser_version_info(t.engine) >>,
        << "mode", ser_str(t.mode) >>,
        << "scenario_path",
           ser_option([i \in DOMAIN t.scenario_path |-> ser_str(t.scenario_path[i])]) >>,
        << "scenario",
           ser_option([i \in DOMAIN t.scenario |-> ser_scenario(t.scenario[i])]) >>,
        << "memory",
           ser_option([i \in DOMAIN t.memory |-> ser_memory(t.memory[i])]) >>,
        << "decisions",
           ser_seq([i \in DOMAIN t.decisions |-> ser_decision(t.decisions[i])]) >>,
        << "events",
           ser_seq([i \in DOMAIN t.events |-> ser_trace_event(t.events[i])]) >>,
        << "summary", ser_run_summary(t.summary) >> >>)

\* Deserialize for TraceFile (derived): every field that is not an Option
\* is required; nothing is checked beyond the fields' types.
de_trace_file(node) ==
    IF node.kind # "object" THEN Err
    ELSE IF duplicate_field(node, TraceFileKeys) THEN Err
    ELSE IF \E key \in TraceFileKeys \ { "scenario_path", "scenario", "memory" } :
                ~has_field(node, key)
    THEN Err
    ELSE IF field(node, "decisions").kind # "array" THEN Err
    ELSE IF field(node, "events").kind # "array" THEN Err
    ELSE LET format == de_str(field(node, "format"))
             version == de_u64(field(node, "version"))
             engine == de_version_info(field(node, "engine"))
             mode == de_run_mode(field(node, "mode"))
             scenario_path ==
                 IF is_none_field(node, "scenario_path") THEN Ok(None)
                 ELSE LET p == de_str(field(node, "scenario_path"))
                      IN  IF IsOk(p) THEN Ok(Some(Unwrap(p))) ELSE Err
             scenario ==
                 IF is_none_field(node, "scenario") THEN Ok(None)
                 ELSE LET s == de_scenario(field(node, "scenario"))
                      IN  IF IsOk(s) THEN Ok(Some(Unwrap(s))) ELSE Err
             memory ==
                 IF is_none_field(node, "memory") THEN Ok(None)
                 ELSE LET m == de_memory(field(node, "memory"))
                      IN  IF IsOk(m) THEN Ok(Some(Unwrap(m))) ELSE Err
             ditems == field(node, "decisions").v
             decisions == [i \in DOMAIN ditems |-> de_decision(ditems[i])]
             eitems == field(node, "events").v
             events == [i \in DOMAIN eitems |-> de_trace_event(eitems[i])]
             summary == de_run_summary(field(node, "summary"))
         IN  IF \/ ~IsOk(format) \/ ~IsOk(version) \/ ~IsOk(engine)
                \/ ~IsOk(mode) \/ ~IsOk(scenario_path) \/ ~IsOk(scenario)
                \/ ~IsOk(memory) \/ ~IsOk(summary)
                \/ \E i \in DOMAIN decisions : ~IsOk(decisions[i])
                \/ \E i \in DOMAIN events : ~IsOk(events[i])
             THEN Err
             ELSE Ok([ format |-> Unwrap(format),
                       version |-> Unwrap(version),
                       engine |-> Unwrap(engine),
                       mode |-> Unwrap(mode),
                       scenario_path |-> Unwrap(scenario_path),
                       scenario |-> Unwrap(scenario),
                       memory |-> Unwrap(memory),
                       decisions |-> [i \in DOMAIN decisions |-> Unwrap(decisions[i])],
                       events |-> [i \in DOMAIN events |-> Unwrap(events[i])],
                       summary |-> Unwrap(summary) ])

\* TraceFile::write_json: the bytes std::fs::write puts at the path.
write_json(t) == ser_trace_file(t)

\* TraceFile::read_json: std::fs::read, then serde_json::from_slice.
read_json(file) == IF IsSome(file) THEN de_trace_file(Unwrap(file)) ELSE Err

(***************************************************************************)
(* The trace codec as a state machine: a trace is written to a path (by    *)
(* this build, or by a build whose trace version is another one), read     *)
(* back, and what was read is written again.                               *)
(***************************************************************************)
FormatName == << "f", "o", "z", "z", "y", "-", "t", "r", "a", "c", "e" >>

CodecDecisions ==
    { [ kind |-> KindRandU64, value |-> 7 ],
      [ kind |-> KindTimeSleepMs, ms |-> U64Max ],
      [ kind |-> KindStep, index |-> 0, name |-> << "s", "\"" >> ] }

CodecEvents ==
    { [ time_ms |-> 0, name |-> << "e", "v" >>, fields |-> << >> ],
      [ time_ms |-> 3, name |-> << "m" >>,
        fields |-> AllocFields(1, 64, Blake3Hex("scenario:step")) ],
      [ time_ms |-> 3, name |-> << "\\" >>,
        fields |-> [ bytes |-> JsonNumber(0),
                     failed_reason |-> JsonString(<< "\"", "\\", "n" >>) ] ] }

CodecScenarios ==
    { None,
      Some([ version |-> 1, name |-> << "s" >>,
             steps |-> << [ type |-> KindRandU64, key |-> None ],
                          [ type |-> TypeUnfreeze ],
                          [ type |-> KindRandU64, key |-> Some(<< "k" >>) ] >> ]) }

\* TraceFile::new and the values its caller fills in.
TraceFiles ==
    { [ format |-> FormatName, version |-> 1, engine |-> header.engine,
        mode |-> mode, scenario_path |-> scenario_path, scenario |-> scenario,
        memory |-> header.memory, decisions |-> decisions, events |-> events,
        summary |-> [ identity |-> [ run_id |-> << "r", "1" >>, seed |-> 7 ],
                      duration_ms |-> header.summary.duration_ms ] ] :
        header \in TraceHeaders, mode \in RunModes,
        scenario_path \in { None, Some(<< "a", "\\", "\"", "b" >>) },
        scenario \in CodecScenarios,
        decisions \in UNION { [1..n -> CodecDecisions] : n \in 0..2 },
        events \in UNION { [1..n -> CodecEvents] : n \in 0..1 } }

\* The trace versions of other builds.
OtherVersions == { 0, 2 }

NotLoaded == [ done |-> FALSE, result |-> Err ]

\* No trace file at work.
CodecIdle ==
    codec = [ source |-> None, disk |-> None, loaded |-> NotLoaded,
              again |-> None ]

\* TraceFile::write_json of a trace of this build.
TraceWrite ==
    /\ codec.disk = None
    /\ \E t \in TraceFiles :
          codec' = [codec EXCEPT !.source = Some(t), !.disk = Some(write_json(t))]
    /\ UNCHANGED << memvars, profvars, calc, fsys, cmd, shr, art >>

\* A trace another build wrote at the path.
TraceFromOtherBuild ==
    /\ codec.disk = None
    /\ \E t \in TraceFiles, version \in OtherVersions :
          codec' = [codec EXCEPT
                       !.disk = Some(write_json([t EXCEPT !.version = version]))]
    /\ UNCHANGED << memvars, profvars, calc, fsys, cmd, shr, art >>

\* TraceFile::read_json of the path.
TraceRead ==
    /\ IsSome(codec.disk)
    /\ ~codec.loaded.done
    /\ codec' = [codec EXCEPT
                    !.loaded = [ done |-> TRUE, result |-> read_json(codec.disk) ]]
    /\ UNCHANGED << memvars, profvars, calc, fsys, cmd, shr, art >>

\* TraceFile::write_json of what read_json returned.
TraceWriteAgain ==
    /\ codec.loaded.done
    /\ IsOk(codec.loaded.result)
    /\ codec.again = None
    /\ codec' = [codec EXCEPT !.again = Some(write_json(Unwrap(codec.loaded.result)))]
    /\ UNCHANGED << memvars, profvars, calc, fsys, cmd, shr, art >>

(***************************************************************************)
(* One reducer applied alone to a trace: build_cpu_profile on traces whose *)
(* virtual times span the whole word, build_latency_profile on traces of   *)
(* up to MaxDeltas + 1 events.                                             *)
(***************************************************************************)
MaxDeltas == 4

\* Events of two names, without fields.
PlainEvents(times) ==
    { [ time_ms |-> t, name |-> name, fields |-> << >> ] :
        t \in times, name \in { NameHttpRequest, NameDeliver } }

\* Traces whose events are in the order of their times.
TracesOf(events, maxLen) ==
    { TraceWith(CHOOSE h \in TraceHeaders : h.memory = None, es) :
        es \in { s \in UNION { [1..n -> events] : n \in 0..maxLen } :
                   \A k \in 1..(Len(s) - 1) : s[k].time_ms <= s[k + 1].time_ms } }

CpuTraces == TracesOf(PlainEvents({ 0, 3, U64Max }), MaxEvents)

\* Events at 1, 4 and 8 ms whose kinds are free, net and event.
LaterEvents ==
    { [ time_ms |-> t, name |-> name, fields |-> << >> ] :
        t \in { 1, 4, 8 },
        name \in { NameMemoryFree, << "n", "e", "t", "_", "d", "r", "o", "p" >>,
                   << "t", "i", "c", "k" >> } }

LatencyTraces ==
    TracesOf(PlainEvents({ 0, 1, 2, 5 }), MaxDeltas + 1)
    \cup TracesOf(LaterEvents, 3)

\* No reducer at work alone.
CalcWith(overflow_checks, diff_of) ==
    calc = [ overflow_checks |-> overflow_checks, cpu |-> None,
             latency |-> None, diff_of |-> diff_of, diff |-> None,
             timeline |-> None, heap |-> None, html |-> None ]

CalcIdle == CalcWith(FALSE, None)

\* build_cpu_profile on the timeline of the trace; a panic leaves no profile.
BuildCpuProfile ==
    /\ calc.cpu = None
    /\ LET timeline == build_profile_timeline(trace)
       IN  \E stacks_iter \in hash_iter(DOMAIN cpu_stacks(timeline)) :
              calc' = [calc EXCEPT !.cpu =
                  Some(IF calc.overflow_checks /\ cpu_overflows(timeline)
                       THEN [ panicked |-> TRUE, profile |-> None ]
                       ELSE [ panicked |-> FALSE,
                              profile |-> Some(build_cpu_profile(trace, timeline,
                                              stacks_iter, host.target_os_linux)) ])]
    /\ UNCHANGED << memvars, profvars, codec, fsys, cmd, shr, art >>

\* build_latency_profile on the timeline of the trace.
BuildLatencyProfile ==
    /\ calc.latency = None
    /\ calc' = [calc EXCEPT !.latency =
                   Some(build_latency_profile(trace, build_profile_timeline(trace)))]
    /\ UNCHANGED << memvars, profvars, codec, fsys, cmd, shr, art >>

\* An event that names its thread, its task and its payload.
ThreadEvent ==
    [ name |-> NameDeliver,
      fields |-> [ thread |-> JsonString(<< "w", "1" >>),
                   task |-> JsonString(<< "t" >>),
                   payload_size |-> JsonNumber(8) ] ]

\* The run a trace is of.
Identities == { [ run_id |-> "r1", seed |-> 7 ], [ run_id |-> "r2", seed |-> 0 ] }

\* Traces of every kind of event, of two runs.
TimelineTraces ==
    { [t EXCEPT !.summary.identity = id] :
        t \in TracesOf({ [ time_ms |-> time, name |-> e.name, fields |-> e.fields ] :
                            time \in EventTimes,
                            e \in EventShapes \cup { ThreadEvent } }, MaxEvents),
        id \in Identities }

\* build_profile_timeline on the trace.
BuildProfileTimeline ==
    /\ calc.timeline = None
    /\ calc' = [calc EXCEPT !.timeline = Some(build_profile_timeline(trace))]
    /\ UNCHANGED << memvars, profvars, codec, fsys, cmd, shr, art >>

\* str::replace of one character by a string.
replace(s, from, to) ==
    LET RECURSIVE walk(_)
        walk(k) == IF k > Len(s) THEN << >>
                   ELSE (IF s[k] = from THEN to ELSE << s[k] >>) \o walk(k + 1)
    IN  walk(1)

\* Five replacements one after the other, '&' first.
escape_xml(s) ==
    replace(replace(replace(replace(replace(s,
        "&", << "&", "a", "m", "p", ";" >>),
        "<", << "&", "l", "t", ";" >>),
        ">", << "&", "g", "t", ";" >>),
        "\"", << "&", "q", "u", "o", "t", ";" >>),
        "'", << "&", "a", "p", "o", "s", ";" >>)

\* {:?} of a ProfileEventKind: the variant's name.
kind_debug(kind) ==
    IF kind = "alloc" THEN << "A", "l", "l", "o", "c" >>
    ELSE IF kind = "free" THEN << "F", "r", "e", "e" >>
    ELSE IF kind = "io" THEN << "I", "o" >>
    ELSE IF kind = "net" THEN << "N", "e", "t" >>
    ELSE IF kind = "sched" THEN << "S", "c", "h", "e", "d" >>
    ELSE << "E", "v", "e", "n", "t" >>

TdOpen == << "<", "t", "d", ">" >>

TdClose == << "<", "/", "t", "d", ">" >>

\* The page up to the rows.
HtmlHead ==
    << "<", "!", "d", "o", "c", "t", "y", "p", "e", " ", "h", "t", "m", "l",
       ">", "<", "h", "t", "m", "l", ">", "<", "h", "e", "a", "d", ">", "<",
       "m", "e", "t", "a", " ", "c", "h", "a", "r", "s", "e", "t", "=", "\"",
       "u", "t", "f", "-", "8", "\"", ">", "<", "t", "i", "t", "l", "e", ">",
       "F", "o", "z", "z", "y", " ", "P", "r", "o", "f", "i", "l", "e", " ",
       "T", "i", "m", "e", "l", "i", "n", "e", "<", "/", "t", "i", "t", "l",
       "e", ">", "<", "s", "t", "y", "l", "e", ">", "b", "o", "d", "y", "{",
       "f", "o", "n", "t", "-", "f", "a", "m", "i", "l", "y", ":", "u", "i",
       "-", "m", "o", "n", "o", "s", "p", "a", "c", "e", ",", "M", "e", "n",
       "l", "o", ",", "m", "o", "n", "o", "s", "p", "a", "c", "e", ";", "b",
       "a", "c", "k", "g", "r", "o", "u", "n", "d", ":", "#", "0", "b", "1",
       "0", "2", "0", ";", "c", "o", "l", "o", "r", ":", "#", "e", "5", "e",
       "7", "e", "b", ";", "p", "a", "d", "d", "i", "n", "g", ":", "2", "0",
       "p", "x", "}", "t", "a", "b", "l", "e", "{", "b", "o", "r", "d", "e",
       "r", "-", "c", "o", "l", "l", "a", "p", "s", "e", ":", "c", "o", "l",
       "l", "a", "p", "s", "e", ";", "w", "i", "d", "t", "h", ":", "1", "0",
       "0", "%", "}", "t", "h", ",", "t", "d", "{", "p", "a", "d", "d", "i",
       "n", "g", ":", "6", "p", "x", " ", "8", "p", "x", ";", "b", "o", "r",
       "d", "e", "r", "-", "b", "o", "t", "t", "o", "m", ":", "1", "p", "x",
       " ", "s", "o", "l", "i", "d", " ", "#", "1", "f", "2", "9", "3", "7",
       ";", "t", "e", "x", "t", "-", "a", "l", "i", "g", "n", ":", "l", "e",
       "f", "t", "}", "<", "/", "s", "t", "y", "l", "e", ">", "<", "/", "h",
       "e", "a", "d", ">", "<", "b", "o", "d", "y", ">", "<", "h", "1", ">",
       "F", "o", "z", "z", "y", " ", "P", "r", "o", "f", "i", "l", "e", " ",
       "T", "i", "m", "e", "l", "i", "n", "e", "<", "/", "h", "1", ">", "<",
       "t", "a", "b", "l", "e", ">", "<", "t", "h", "e", "a", "d", ">", "<",
       "t", "r", ">", "<", "t", "h", ">", "t", "_", "v", "i", "r", "t", "u",
       "a", "l", "<", "/", "t", "h", ">", "<", "t", "h", ">", "k", "i", "n",
       "d", "<", "/", "t", "h", ">", "<", "t", "h", ">", "t", "h", "r", "e",
       "a", "d", "<", "/", "t", "h", ">", "<", "t", "h", ">", "s", "p", "a",
       "n", "_", "i", "d", "<", "/", "t", "h", ">", "<", "t", "h", ">", "n",
       "a", "m", "e", "<", "/", "t", "h", ">", "<", "/", "t", "r", ">", "<",
       "/", "t", "h", "e", "a", "d", ">", "<", "t", "b", "o", "d", "y", ">" >>

\* The page after the rows.
HtmlTail ==
    << "<", "/", "t", "b", "o", "d", "y", ">", "<", "/", "t", "a", "b", "l",
       "e", ">", "<", "/", "b", "o", "d", "y", ">", "<", "/", "h", "t", "m",
       "l", ">" >>

\* One <tr> of the page: t_virtual, kind, thread, span_id and name.
html_row(e) ==
    << "<", "t", "r", ">" >>
    \o TdOpen \o Decimal(e.t_virtual) \o TdClose
    \o TdOpen \o kind_debug(e.kind) \o TdClose
    \o TdOpen \o e.thread \o TdClose
    \o TdOpen \o escape_xml(e.span_id) \o TdClose
    \o TdOpen \o escape_xml(e.tags["name"]) \o TdClose
    \o << "<", "/", "t", "r", ">" >>

timeline_html(events) ==
    LET RECURSIVE rows(_)
        rows(k) == IF k > Len(events) THEN << >>
                   ELSE html_row(events[k]) \o rows(k + 1)
    IN  HtmlHead \o rows(1) \o HtmlTail

\* Event names and threads with the five characters in them.
HtmlNames ==
    { NameDeliver, << "<", "&", "l", "t", ";", ">", "\"", "'" >> }

HtmlThreads == { << "<", "b", ">" >>, << "&", "'" >> }

HtmlEvents ==
    { [ time_ms |-> t, name |-> name, fields |-> << >> ] :
        t \in EventTimes, name \in HtmlNames }
    \cup { [ time_ms |-> t, name |-> name,
             fields |-> [ thread |-> JsonString(thread) ] ] :
             t \in EventTimes, name \in HtmlNames, thread \in HtmlThreads }

HtmlTraces == TracesOf(HtmlEvents, MaxEvents)

\* `profile timeline --format html`: the page of the trace's timeline.
TimelineHtml ==
    /\ calc.html = None
    /\ calc' = [calc EXCEPT !.html = Some(timeline_html(build_profile_timeline(trace)))]
    /\ UNCHANGED << memvars, profvars, codec, fsys, cmd, shr, art >>

\* Allocations that succeeded.
HeapAllocShapes ==
    { [ name |-> NameMemoryAlloc,
        fields |-> AllocFields(1, 64, Blake3Hex("scenario:step")) ],
      [ name |-> NameMemoryAlloc,
        fields |-> AllocFields(2, U64Max, Blake3Hex("engine:io")) ] }

\* Allocations that carry a failed_reason or no alloc_id, and frees.
HeapShapes ==
    { [ name |-> NameMemoryAlloc,
        fields |-> [ alloc_id |-> JsonNumber(1), bytes |-> JsonNumber(32),
                     failed_reason |-> JsonString(<< "n", "u", "l", "l" >>) ] ],
      [ name |-> NameMemoryAlloc,
        fields |-> [ alloc_id |-> JsonNumber(2), bytes |-> JsonNumber(8),
                     failed_reason |-> JsonString(<< >>) ] ],
      [ name |-> NameMemoryAlloc,
        fields |-> [ alloc_id |-> JsonNumber(2), bytes |-> JsonNumber(16),
                     failed_reason |-> JsonString(<< "l", "i", "m", "i", "t",
                                                     "_", "m", "b" >>) ] ],
      [ name |-> NameMemoryAlloc, fields |-> [ bytes |-> JsonNumber(16) ] ],
      [ name |-> NameMemoryFree, fields |-> [ alloc_id |-> JsonNumber(1) ] ],
      [ name |-> NameMemoryFree, fields |-> [ alloc_id |-> JsonNumber(2) ] ] }

\* Traces of heap events in time order, with and without a memory report.
HeapTraces ==
    { [t EXCEPT !.memory = header.memory] :
        t \in TracesOf({ [ time_ms |-> time, name |-> e.name, fields |-> e.fields ] :
                            time \in EventTimes, e \in HeapAllocShapes }
                        \cup { [ time_ms |-> 3, name |-> e.name, fields |-> e.fields ] :
                                 e \in HeapShapes }, MaxEvents),
        header \in TraceHeaders }

\* build_heap_profile on the timeline of the trace: the live map and the
\* completed list its scan ends with, and the profile.
BuildHeapProfile ==
    /\ calc.heap = None
    /\ LET timeline == build_profile_timeline(trace)
           scanned == heap_scan(timeline, Len(timeline))
       IN  \E live_order \in hash_iter(DOMAIN scanned.live),
              hotspots_iter \in hash_iter(hotspot_keys(timeline)) :
              calc' = [calc EXCEPT !.heap =
                  Some([ live |-> scanned.live,
                         completed |-> scanned.completed,
                         profile |-> build_heap_profile(trace, timeline,
                                         live_order, hotspots_iter) ])]
    /\ UNCHANGED << memvars, profvars, codec, fsys, cmd, shr, art >>

\* The metrics documents compute_diff is given.
MetricsDocs ==
    { [ cpu_time_ms |-> c, alloc_bytes |-> a, in_use_bytes |-> 5,
        p95_latency_ms |-> c, p99_latency_ms |-> 9, max_latency_ms |-> a,
        io_ops |-> 5 + (c % 2), sched_ops |-> a % 4 ] :
        c \in { 0, 5, U64Max }, a \in { 3, U64Max - 1 } }

\* The domain lists: what normalize_domains returns, and lists that repeat a
\* domain or name an unknown one.
DomainLists ==
    { normalize_domains(f[1], f[2], f[3], f[4], f[5]) :
        f \in BOOLEAN \X BOOLEAN \X BOOLEAN \X BOOLEAN \X BOOLEAN }
    \cup UNION { [1..n -> { "cpu", "heap", "latency", "other" }] : n \in 0..2 }

\* compute_diff in both directions on the same documents and domains.
ComputeDiff ==
    /\ IsSome(calc.diff_of)
    /\ calc.diff = None
    /\ LET in == Unwrap(calc.diff_of)
       IN  calc' = [calc EXCEPT !.diff =
               Some([ ab |-> compute_diff("a", "b", in.domains, in.a, in.b),
                      ba |-> compute_diff("b", "a", in.domains, in.b, in.a) ])]
    /\ UNCHANGED << memvars, profvars, codec, fsys, cmd, shr, art >>

(***************************************************************************)
(* The profile command (cmd/profile_cmd.rs: profile_command and the bundle *)
(* resolver).                                                              *)
(*                                                                         *)
(* A path is [dir, stem, ext]; the file system is a function from the      *)
(* paths that exist to the files' contents [kind, of, trace_path]: kind    *)
(* tells what the bytes parse as, `of` names the trace the content was     *)
(* made from, trace_path is the path a report or a manifest carries.       *)
(***************************************************************************)
PathOf(dir, stem, ext) == [ dir |-> dir, stem |-> stem, ext |-> ext ]

FileOf(kind, of, trace_path) ==
    [ kind |-> kind, of |-> of, trace_path |-> trace_path ]

\* An extension test that tells upper case from lower case.
is_fozzy_exact(ext) == ext = "fozzy"

\* str::eq_ignore_ascii_case against "fozzy", for the extensions of the model.
is_fozzy_ext(ext) == ext \in { "fozzy", "FOZZY", "Fozzy" }

\* The six derived artifacts of a directory.
ArtifactStems ==
    { "profile.timeline", "profile.cpu", "profile.heap", "profile.latency",
      "profile.metrics", "symbols" }

artifact_paths(dir) == { PathOf(dir, stem, "json") : stem \in ArtifactStems }

\* std::fs::write of one content at a set of paths.
write_all(files, paths, content) ==
    [p \in DOMAIN files \cup paths |-> IF p \in paths THEN content ELSE files[p]]

\* resolve_artifacts_dir: the run directory of a selector under the base.
resolve_artifacts_dir(selector) ==
    << "runs" >> \o selector.dir \o << selector.stem >>

\* The trace_path a report.json or manifest.json yields, if the file parses
\* and the path it names exists.
trace_path_from(files, path, kind) ==
    IF path \in DOMAIN files /\ files[path].kind = kind
       /\ IsSome(files[path].trace_path)
       /\ Unwrap(files[path].trace_path) \in DOMAIN files
    THEN files[path].trace_path ELSE None

resolve_profile_artifacts(files, selector) ==
    IF selector \in DOMAIN files /\ is_fozzy_ext(selector.ext)
    THEN [ dir |-> selector.dir, trace |-> Some(selector) ]
    ELSE LET dir == resolve_artifacts_dir(selector)
             from_report ==
                 trace_path_from(files, PathOf(dir, "report", "json"), "report")
             from_manifest ==
                 trace_path_from(files, PathOf(dir, "manifest", "json"), "manifest")
         IN  [ dir |-> dir,
               trace |-> IF PathOf(dir, "trace", "fozzy") \in DOMAIN files
                         THEN Some(PathOf(dir, "trace", "fozzy"))
                         ELSE IF IsSome(from_report) THEN from_report
                         ELSE from_manifest ]

profile_artifacts_exist(files, dir) == artifact_paths(dir) \subseteq DOMAIN files

\* write_profile_artifacts_from_trace: the six documents of a trace.
write_profile_artifacts(files, of, dir) ==
    write_all(files, artifact_paths(dir), FileOf("artifact", of, None))

\* load_profile_bundle: status, the files afterwards and, when Ok, the trace
\* each loaded document was made from.
load_profile_bundle(files, selector) ==
    LET resolved == resolve_profile_artifacts(files, selector)
        trace_file == files[Unwrap(resolved.trace)]
        derived == IF IsSome(resolved.trace) /\ trace_file.kind = "trace"
                   THEN write_profile_artifacts(files, trace_file.of, resolved.dir)
                   ELSE files
    IN  IF IsSome(resolved.trace) /\ trace_file.kind # "trace"
        THEN [ status |-> "json", files |-> files, of |-> "" ]
        ELSE IF ~IsSome(resolved.trace)
                /\ ~profile_artifacts_exist(files, resolved.dir)
        THEN [ status |-> "invalid_argument", files |-> files, of |-> "" ]
        ELSE IF \E p \in artifact_paths(resolved.dir) : derived[p].kind # "artifact"
        THEN [ status |-> "json", files |-> derived, of |-> "" ]
        ELSE [ status |-> "ok", files |-> derived,
               of |-> derived[PathOf(resolved.dir, "profile.cpu", "json")].of ]

\* enforce_cpu_contract: Err(InvalidArgument) under the strict contract.
enforce_cpu_contract(strict, cpu_requested) == ~(strict /\ cpu_requested)

\* shrink_trace with no out_trace_path: the path of the shrunk trace.
shrink_out_path(trace_path) ==
    [trace_path EXCEPT !.ext = "min.fozzy"]

(***************************************************************************)
(* The profile command as a state machine: one operation is run on a file  *)
(* system, under the strict contract or not.                               *)
(***************************************************************************)
\* The selectors: a run id, a trace file given by its path, a file that is
\* no trace.
RunSelector == PathOf(<< >>, "r1", "")

TraceSelector == PathOf(<< "ext" >>, "d", "FOZZY")

TextSelector == PathOf(<< "ext" >>, "d", "txt")

Selectors == { RunSelector, TraceSelector, TextSelector }

RunDir == resolve_artifacts_dir(RunSelector)

\* Traces outside the run directory, for a report and a manifest to name.
ReportedTrace == PathOf(<< "ext" >>, "a", "fozzy")

ManifestTrace == PathOf(<< "ext" >>, "b", "fozzy")

OutPath == PathOf(<< "out" >>, "profile", "txt")

\* The file systems a command may find: every part is there or not.
FileSets(parts) ==
    { [p \in { q \in DOMAIN parts : q \in present } |-> parts[p]] :
        present \in SUBSET DOMAIN parts }

TraceFilesOnDisk ==
    FileSets([p \in { PathOf(RunDir, "trace", "fozzy"), TraceSelector,
                      TextSelector, ReportedTrace, ManifestTrace } |->
                FileOf("trace", p.dir \o << p.stem >>, None)])

ReportsOnDisk ==
    { << >>,
      [p \in { PathOf(RunDir, "report", "json") } |->
          FileOf("report", << >>, None)],
      [p \in { PathOf(RunDir, "report", "json") } |->
          FileOf("report", << >>, Some(ReportedTrace))],
      [p \in { PathOf(RunDir, "report", "json") } |->
          FileOf("garbage", << >>, Some(ReportedTrace))] }

ManifestsOnDisk ==
    { << >>,
      [p \in { PathOf(RunDir, "manifest", "json") } |->
          FileOf("manifest", << >>, Some(ManifestTrace))] }

ArtifactsOnDisk ==
    { << >>,
      [p \in artifact_paths(RunDir) |-> FileOf("artifact", << "old" >>, None)],
      [p \in artifact_paths(RunDir) \ { PathOf(RunDir, "symbols", "json") } |->
          FileOf("artifact", << "old" >>, None)] }

\* The union of file systems over disjoint paths.
Merge(f, g) ==
    [p \in DOMAIN f \cup DOMAIN g |-> IF p \in DOMAIN f THEN f[p] ELSE g[p]]

FileSystems ==
    { Merge(Merge(t, r), Merge(m, a)) :
        t \in TraceFilesOnDisk, r \in ReportsOnDisk, m \in ManifestsOnDisk,
        a \in ArtifactsOnDisk }

\* Where --out may point: nowhere, a fresh path, or a trace.
OutChoices ==
    { None, Some(OutPath), Some(PathOf(RunDir, "trace", "fozzy")),
      Some(TraceSelector) }

NoCommand ==
    [ op |-> "none", strict |-> FALSE, selector |-> RunSelector,
      cpu_requested |-> FALSE, status |-> "", cpu_data |-> FALSE,
      out |-> None, before |-> << >> ]

\* No profile command at work.
CommandIdle == fsys = << >> /\ cmd = NoCommand

\* What a command leaves behind: the call, what it returned (status, and
\* whether the document returned or written carries cpu samples, folded
\* stacks or values computed from them) and the files.
Returned(op, args, status, cpu_data, after) ==
    /\ cmd' = [ op |-> op, strict |-> cmd.strict, selector |-> args.selector,
                cpu_requested |-> args.cpu, status |-> status,
                cpu_data |-> cpu_data /\ status = "ok", out |-> args.out,
                before |-> fsys ]
    /\ fsys' = after
    /\ UNCHANGED << memvars, profvars, codec, calc, shr, art >>

\* std::fs::write of a command's payload at --out.
write_out(after, out, of) ==
    IF IsSome(out) THEN write_all(after, { Unwrap(out) }, FileOf("output", of, None))
    ELSE after

\* ProfileCommand::Top
Top ==
    /\ cmd.op = "none"
    /\ \E selector \in Selectors, cpu \in BOOLEAN :
          LET bundle == load_profile_bundle(fsys, selector)
              args == [ selector |-> selector, cpu |-> cpu, out |-> None ]
          IN  IF bundle.status # "ok"
              THEN Returned("top", args, bundle.status, FALSE, bundle.files)
              ELSE IF ~enforce_cpu_contract(cmd.strict, cpu)
              THEN Returned("top", args, "strict_contract", FALSE, bundle.files)
              ELSE Returned("top", args, "ok", cpu, bundle.files)

\* ProfileCommand::Flame
Flame ==
    /\ cmd.op = "none"
    /\ \E selector \in Selectors, cpu \in BOOLEAN, heap \in BOOLEAN,
          out \in OutChoices :
          LET bundle == load_profile_bundle(fsys, selector)
              args == [ selector |-> selector, cpu |-> cpu, out |-> out ]
              use_heap == heap \/ ~cpu
          IN  IF bundle.status # "ok"
              THEN Returned("flame", args, bundle.status, FALSE, bundle.files)
              ELSE IF cpu /\ ~enforce_cpu_contract(cmd.strict, TRUE)
              THEN Returned("flame", args, "strict_contract", FALSE, bundle.files)
              ELSE Returned("flame", args, "ok", ~use_heap,
                            write_out(bundle.files, out, bundle.of))

\* ProfileCommand::Timeline
Timeline ==
    /\ cmd.op = "none"
    /\ \E selector \in Selectors, out \in OutChoices :
          LET bundle == load_profile_bundle(fsys, selector)
              args == [ selector |-> selector, cpu |-> FALSE, out |-> out ]
          IN  IF bundle.status # "ok"
              THEN Returned("timeline", args, bundle.status, FALSE, bundle.files)
              ELSE Returned("timeline", args, "ok", FALSE,
                            write_out(bundle.files, out, bundle.of))

\* ProfileCommand::Diff, of a run with itself.
Diff ==
    /\ cmd.op = "none"
    /\ \E selector \in Selectors, cpu \in BOOLEAN :
          LET args == [ selector |-> selector, cpu |-> cpu, out |-> None ]
              l == load_profile_bundle(fsys, selector)
              r == load_profile_bundle(l.files, selector)
          IN  IF cpu /\ ~enforce_cpu_contract(cmd.strict, TRUE)
              THEN Returned("diff", args, "strict_contract", FALSE, fsys)
              ELSE IF l.status # "ok"
              THEN Returned("diff", args, l.status, FALSE, l.files)
              ELSE Returned("diff", args, r.status, cpu, r.files)

\* ProfileCommand::Explain, without diff_with.
Explain ==
    /\ cmd.op = "none"
    /\ \E selector \in Selectors :
          LET bundle == load_profile_bundle(fsys, selector)
              args == [ selector |-> selector, cpu |-> FALSE, out |-> None ]
          IN  Returned("explain", args, bundle.status, FALSE, bundle.files)

\* ProfileCommand::Export: speedscope and pprof are built from the cpu
\* profile's folded stacks and samples, otlp from the metrics and timeline.
Export ==
    /\ cmd.op = "none"
    /\ \E selector \in Selectors, format \in { "speedscope", "pprof", "otlp" },
          out \in OutChoices \ { None } :
          LET bundle == load_profile_bundle(fsys, selector)
              args == [ selector |-> selector, cpu |-> FALSE, out |-> out ]
          IN  IF bundle.status # "ok"
              THEN Returned("export", args, bundle.status, FALSE, bundle.files)
              ELSE Returned("export", args, "ok", format # "otlp",
                            write_out(bundle.files, out, bundle.of))

\* ProfileCommand::Shrink: the shrunk trace goes to shrink_trace's own path
\* and the six documents of the shrunk trace next to it.
Shrink ==
    /\ cmd.op = "none"
    /\ \E selector \in Selectors, metric \in { "p99_latency", "cpu_time" } :
          LET resolved == resolve_profile_artifacts(fsys, selector)
              args == [ selector |-> selector, cpu |-> FALSE, out |-> None ]
              trace_path == Unwrap(resolved.trace)
              out_trace == shrink_out_path(trace_path)
              shrunk == FileOf("trace", fsys[trace_path].of \o << "min" >>, None)
          IN  IF ~IsSome(resolved.trace)
              THEN Returned("shrink", args, "invalid_argument", FALSE, fsys)
              ELSE IF fsys[trace_path].kind # "trace"
              THEN Returned("shrink", args, "json", FALSE, fsys)
              ELSE Returned("shrink", args, "ok", metric = "cpu_time",
                       write_profile_artifacts(
                           write_all(fsys, { out_trace }, shrunk),
                           shrunk.of, out_trace.dir))

\* ProfileCommand::Doctor: a failed load is reported in the document; the
\* shrink check writes a trace in the temporary directory and reports the
\* cpu time before and after.
Doctor ==
    /\ cmd.op = "none"
    /\ \E selector \in Selectors :
          LET bundle == load_profile_bundle(fsys, selector)
              resolved == resolve_profile_artifacts(bundle.files, selector)
              args == [ selector |-> selector, cpu |-> FALSE, out |-> None ]
              shrunk == FileOf("trace", bundle.of \o << "min" >>, None)
              tmp == PathOf(<< "tmp" >>, "fozzy-profile-doctor.trace", "fozzy")
          IN  IF bundle.status # "ok" \/ ~IsSome(resolved.trace)
              THEN Returned("doctor", args, "ok", FALSE, bundle.files)
              ELSE Returned("doctor", args, "ok", TRUE,
                            write_all(bundle.files, { tmp }, shrunk))

(***************************************************************************)
(* The metric contract of ProfileCommand::Shrink: the metric of the trace, *)
(* the metric of what shrink_trace left of it, and the document returned.  *)
(***************************************************************************)
ProfileMetrics == { "p99_latency", "cpu_time", "alloc_bytes" }

ProfileDirections == { "increase", "decrease" }

\* The orders in which one reducer pass visits its HashMaps.
hash_orders(given) ==
    LET timeline == build_profile_timeline(given)
    IN  { [ stacks |-> s, live |-> l, hotspots |-> h ] :
            s \in hash_iter(DOMAIN cpu_stacks(timeline)),
            l \in hash_iter(DOMAIN heap_scan(timeline, Len(timeline)).live),
            h \in hash_iter(hotspot_keys(timeline)) }

\* iter().map(|f| f.weight as f64).sum(): f64 additions from the left.
RECURSIVE f64_sum_weights(_)
f64_sum_weights(folded) ==
    IF folded = << >> THEN 0
    ELSE f64_round(f64_sum_weights(SubSeq(folded, 1, Len(folded) - 1))
                   + as_f64(folded[Len(folded)].weight))

\* distribution.p99_ms of build_latency_profile, computed without the other
\* fields of the profile: the percentile of the sorted deltas, 0 without
\* deltas.
latency_p99_ms(timeline) ==
    LET n == IF Len(timeline) = 0 THEN 0 ELSE Len(timeline) - 1
        durations == [k \in 1..n |->
                        saturating_sub(timeline[k + 1].t_virtual,
                                       timeline[k].t_virtual)]
        deltas == StableSort(durations,
                    [i \in 1..n |-> [j \in 1..n |->
                        durations[i] < durations[j]]])
    IN  IF n = 0 THEN 0 ELSE percentile(deltas, 99)

\* metric_value: the three reducers run on a fresh timeline, whatever the
\* metric; iters are the orders their HashMaps are visited in.
metric_value(metric, given, iters) ==
    LET timeline == build_profile_timeline(given)
        cpu == build_cpu_profile(given, timeline, iters.stacks, TRUE)
        heap == build_heap_profile(given, timeline, iters.live, iters.hotspots)
    IN  IF metric = "p99_latency" THEN as_f64(latency_p99_ms(timeline))
        ELSE IF metric = "cpu_time" THEN f64_sum_weights(cpu.folded_stacks)
        ELSE as_f64(heap.total_alloc_bytes)

\* The values metric_value can return for a trace.
metric_values(metric, given) ==
    { metric_value(metric, given, iters) : iters \in hash_orders(given) }

\* metric_value panics in build_cpu_profile in a build with overflow checks.
metric_panics(overflow_checks, given) ==
    overflow_checks /\ cpu_overflows(build_profile_timeline(given))

\* `while out.contains('.') && out.ends_with('0') { out.pop(); }`
RECURSIVE pop_zeros(_)
pop_zeros(out) ==
    IF (\E k \in 1..Len(out) : out[k] = ".") /\ out[Len(out)] = "0"
    THEN pop_zeros(SubSeq(out, 1, Len(out) - 1))
    ELSE out

\* format_metric_value of a value without a fraction: six decimals, then
\* the zeros and the point at the end removed.
format_metric_value(value) ==
    LET fixed == Decimal(value) \o << ".", "0", "0", "0", "0", "0", "0" >>
        out == pop_zeros(fixed)
    IN  IF out[Len(out)] = "." THEN SubSeq(out, 1, Len(out) - 1) ELSE out

\* A contract that wants the metric to move strictly.
contract_strict(direction, baseline, after) ==
    IF direction = "increase" THEN after > baseline ELSE after < baseline

\* `preserved`: after >= baseline for Increase, after <= baseline for Decrease.
contract_preserved(direction, baseline, after) ==
    IF direction = "increase" THEN after >= baseline ELSE after <= baseline

\* The comparator named in the document.
comparator_of(direction) == IF direction = "increase" THEN ">=" ELSE "<="

\* The document Shrink returns; format!'s pieces are kept apart.
shrink_document(metric, direction, baseline, after) ==
    LET preserved == contract_preserved(direction, baseline, after)
        expected == << "after", comparator_of(direction), "baseline" >>
    IN  [ schemaVersion |-> "fozzy.profile_shrink.v1",
          status |-> IF preserved THEN "ok" ELSE "no_feasible_shrink_found",
          metric |-> metric,
          direction |-> direction,
          baseline |-> baseline,
          after |-> after,
          preserved |-> preserved,
          contract |-> [ expected |-> expected, direction |-> direction ],
          reason |->
              IF preserved THEN None
              ELSE Some([ text |-> "no feasible shrink found that preserves metric direction",
                          expected |-> expected,
                          direction |-> direction,
                          baseline |-> format_metric_value(baseline),
                          after |-> format_metric_value(after) ]) ]

\* The sub-sequences of a sequence, in its order.
RECURSIVE SubSequences(_)
SubSequences(seq) ==
    IF seq = << >> THEN { << >> }
    ELSE LET rest == SubSequences(Tail(seq))
         IN  rest \cup { << Head(seq) >> \o s : s \in rest }

\* What shrink_trace can leave of a trace: some of its events, in order.
shrink_trace(given) ==
    { [given EXCEPT !.events = es] : es \in SubSequences(given.events) }

ShrinkEvents ==
    { [ time_ms |-> t, name |-> NameDeliver, fields |-> << >> ] :
        t \in { 0, 3, U64Max } }
    \cup { [ time_ms |-> 0, name |-> NameMemoryAlloc,
             fields |-> AllocFields(1, 64, Blake3Hex("scenario:step")) ],
           [ time_ms |-> 3, name |-> NameMemoryAlloc,
             fields |-> AllocFields(2, 128, Blake3Hex("engine:io")) ] }

ShrinkTraces == TracesOf(ShrinkEvents, MaxEvents)

\* Shrink not run.
ShrinkIdle == shr = None

\* What happened to a Shrink: it panicked, returned Err(..), or returned
\* Ok(document).
ShrinkResult(metric, direction, shrunk, outcome, doc) ==
    Some([ metric |-> metric, direction |-> direction, shrunk |-> shrunk,
           outcome |-> outcome, doc |-> doc ])

\* ProfileCommand::Shrink on a trace that resolved and was read: baseline,
\* shrink_trace (which may fail), after, the document.
ShrinkContract ==
    /\ shr = None
    /\ \E metric \in ProfileMetrics, direction \in ProfileDirections :
          IF metric_panics(calc.overflow_checks, trace)
          THEN shr' = ShrinkResult(metric, direction, None, "panic", None)
          ELSE
          \/ shr' = ShrinkResult(metric, direction, None, "err", None)
          \/ \E shrunk_trace \in shrink_trace(trace) :
                IF metric_panics(calc.overflow_checks, shrunk_trace)
                THEN shr' = ShrinkResult(metric, direction, Some(shrunk_trace),
                                         "panic", None)
                ELSE \E baseline \in metric_values(metric, trace),
                        after \in metric_values(metric, shrunk_trace) :
                        shr' = ShrinkResult(metric, direction,
                                   Some(shrunk_trace), "ok",
                                   Some(shrink_document(metric, direction,
                                                        baseline, after)))
    /\ UNCHANGED << memvars, profvars, codec, calc, fsys, cmd, art >>

(***************************************************************************)
(* A derived artifact rewritten while another process reads it.            *)
(* write_json is create_dir_all, then std::fs::write: the file at the path *)
(* is opened with truncation and the bytes are written to it by write      *)
(* calls.  load_profile_bundle reads it with std::fs::read: an open, then  *)
(* read calls up to the end of the file.                                   *)
(***************************************************************************)
MaxRewrites == 2

\* to_vec_pretty of the documents an artifact holds in turn.
ArtifactTexts ==
    { << "[" >> \o Decimal(n) \o << "]" >> : n \in { 7, 64 } }

NoArtifact ==
    [ file |-> << >>,
      writer |-> [ pc |-> "idle", bytes |-> << >>, rewrites |-> 0 ],
      reader |-> [ pc |-> "closed", buf |-> << >>, overlapped |-> FALSE ] ]

\* No artifact being written or read.
ArtifactIdle == art = NoArtifact

\* std::fs::write, File::create: the file is truncated to no bytes.
ArtifactCreate ==
    /\ art.writer.pc = "idle"
    /\ art.writer.rewrites < MaxRewrites
    /\ \E bytes \in ArtifactTexts :
          art' = [art EXCEPT
                   !.file = << >>,
                   !.writer = [ pc |-> "writing", bytes |-> bytes,
                                rewrites |-> @.rewrites + 1 ],
                   !.reader.overlapped = @ \/ art.reader.pc = "reading"]
    /\ UNCHANGED << memvars, profvars, codec, calc, fsys, cmd, shr >>

\* std::fs::write, write_all: one write call takes some of the bytes left;
\* after the last the file is closed.
ArtifactWrite ==
    /\ art.writer.pc = "writing"
    /\ \E n \in 1..(Len(art.writer.bytes) - Len(art.file)) :
          LET file == art.file \o SubSeq(art.writer.bytes, Len(art.file) + 1,
                                        Len(art.file) + n)
          IN  art' = [art EXCEPT
                       !.file = file,
                       !.writer.pc = IF file = art.writer.bytes THEN "idle"
                                     ELSE "writing"]
    /\ UNCHANGED << memvars, profvars, codec, calc, fsys, cmd, shr >>

\* std::fs::read, File::open.
ReaderOpen ==
    /\ art.reader.pc = "closed"
    /\ art' = [art EXCEPT
                !.reader = [ pc |-> "reading", buf |-> << >>,
                             overlapped |-> art.writer.pc = "writing" ]]
    /\ UNCHANGED << memvars, profvars, codec, calc, fsys, cmd, shr >>

\* std::fs::read, one read call: some of the bytes past what was read, or
\* none at the end of the file, which ends the read.
ReaderRead ==
    /\ art.reader.pc = "reading"
    /\ IF Len(art.reader.buf) < Len(art.file)
       THEN \E n \in 1..(Len(art.file) - Len(art.reader.buf)) :
               art' = [art EXCEPT !.reader.buf =
                        @ \o SubSeq(art.file, Len(@) + 1, Len(@) + n)]
       ELSE art' = [art EXCEPT !.reader.pc = "done"]
    /\ UNCHANGED << memvars, profvars, codec, calc, fsys, cmd, shr >>

\* Nothing at work in the shrink contract or on an artifact file.
RestIdle == ShrinkIdle /\ ArtifactIdle

\* Nothing at work outside the memory capability and the profiler.
AuxIdle == CodecIdle /\ CalcIdle /\ CommandIdle /\ ShrinkIdle /\ ArtifactIdle

vars == << memvars, profvars, auxvars >>

Init == MemInitWith({ 1 }, OptionSets) /\ ProfileIdle /\ AuxIdle

PairInit == MemInitWith({ 1, 2 }, PairOptionSets) /\ ProfileIdle /\ AuxIdle

ProfileInit ==
    /\ MemIdle
    /\ trace \in Traces
    /\ host \in [ target_os_linux : BOOLEAN ]
    /\ docs = << >>
    /\ AuxIdle

CodecInit ==
    MemIdle /\ ProfileIdle /\ CodecIdle /\ CalcIdle /\ CommandIdle /\ RestIdle

CommandInit ==
    /\ MemIdle
    /\ ProfileIdle
    /\ CodecIdle
    /\ CalcIdle
    /\ fsys \in FileSystems
    /\ \E strict \in BOOLEAN : cmd = [NoCommand EXCEPT !.strict = strict]
    /\ RestIdle

CpuInit ==
    /\ MemIdle
    /\ trace \in CpuTraces
    /\ host = [ target_os_linux |-> TRUE ]
    /\ docs = << >>
    /\ CodecIdle
    /\ \E overflow_checks \in BOOLEAN : CalcWith(overflow_checks, None)
    /\ CommandIdle
    /\ RestIdle

DiffInit ==
    /\ MemIdle
    /\ ProfileIdle
    /\ CodecIdle
    /\ \E a \in MetricsDocs, b \in MetricsDocs, domains \in DomainLists :
          CalcWith(FALSE, Some([ a |-> a, b |-> b, domains |-> domains ]))
    /\ CommandIdle
    /\ RestIdle

LatencyInit ==
    /\ MemIdle
    /\ trace \in LatencyTraces
    /\ host = [ target_os_linux |-> TRUE ]
    /\ docs = << >>
    /\ CodecIdle
    /\ CalcIdle
    /\ CommandIdle
    /\ RestIdle

ShrinkInit ==
    /\ MemIdle
    /\ trace \in ShrinkTraces
    /\ host = [ target_os_linux |-> TRUE ]
    /\ docs = << >>
    /\ CodecIdle
    /\ \E overflow_checks \in BOOLEAN : CalcWith(overflow_checks, None)
    /\ CommandIdle
    /\ RestIdle

ArtifactInit ==
    /\ MemIdle
    /\ ProfileIdle
    /\ CodecIdle
    /\ CalcIdle
    /\ CommandIdle
    /\ ShrinkIdle
    /\ \E bytes \in ArtifactTexts : art = [NoArtifact EXCEPT !.file = bytes]

TimelineInit ==
    /\ MemIdle
    /\ trace \in TimelineTraces
    /\ host = [ target_os_linux |-> TRUE ]
    /\ docs = << >>
    /\ CodecIdle
    /\ CalcIdle
    /\ CommandIdle
    /\ RestIdle

HeapInit ==
    /\ MemIdle
    /\ trace \in HeapTraces
    /\ host = [ target_os_linux |-> TRUE ]
    /\ docs = << >>
    /\ CodecIdle
    /\ CalcIdle
    /\ CommandIdle
    /\ RestIdle

HtmlInit ==
    /\ MemIdle
    /\ trace \in HtmlTraces
    /\ host = [ target_os_linux |-> TRUE ]
    /\ docs = << >>
    /\ CodecIdle
    /\ CalcIdle
    /\ CommandIdle
    /\ RestIdle

Next == MemNext

ProfileNext == WriteProfileArtifacts

CpuNext == BuildCpuProfile

LatencyNext == BuildLatencyProfile

TimelineNext == BuildProfileTimeline

HeapNext == BuildHeapProfile

HtmlNext == TimelineHtml

DiffNext == ComputeDiff

CommandNext ==
    Top \/ Flame \/ Timeline \/ Diff \/ Explain \/ Export \/ Shrink \/ Doctor

CodecNext == TraceWrite \/ TraceFromOtherBuild \/ TraceRead \/ TraceWriteAgain

ShrinkNext == ShrinkContract

ArtifactNext == ArtifactCreate \/ ArtifactWrite \/ ReaderOpen \/ ReaderRead

Spec == Init /\ [][Next]_vars

ShrinkSpec == ShrinkInit /\ [][ShrinkNext]_vars

ArtifactSpec == ArtifactInit /\ [][ArtifactNext]_vars

PairSpec == PairInit /\ [][Next]_vars

ProfileSpec == ProfileInit /\ [][ProfileNext]_vars

CodecSpec == CodecInit /\ [][CodecNext]_vars

CpuSpec == CpuInit /\ [][CpuNext]_vars

LatencySpec == LatencyInit /\ [][LatencyNext]_vars

TimelineSpec == TimelineInit /\ [][TimelineNext]_vars

HeapSpec == HeapInit /\ [][HeapNext]_vars

HtmlSpec == HtmlInit /\ [][HtmlNext]_vars

DiffSpec == DiffInit /\ [][DiffNext]_vars

CommandSpec == CommandInit /\ [][CommandNext]_vars


(***************************************************************************)
(* Vocabulary of the properties of the memory capability.                  *)
(***************************************************************************)
\* finalize returned a report on instance 1.
Reported == phase = "finalized" /\ ~report[1].panicked

Last(seq) == seq[Len(seq)]

\* The successful calls of one kind, in the order they returned.
LogOf(op) ==
    LET RECURSIVE Pick(_)
        Pick(k) == IF k = 0 THEN << >>
                   ELSE Pick(k - 1)
                        \o (IF obs.log[k].op = op THEN << obs.log[k] >> ELSE << >>)
    IN  Pick(Len(obs.log))

LogIds(op) == { LogOf(op)[k].id : k \in 1..Len(LogOf(op)) }

\* The timeline entry that recorded the successful allocation of an id.
AllocEntry(s, id) ==
    s.timeline[CHOOSE k \in 1..Len(s.timeline) :
                  /\ s.timeline[k].kind = "alloc"
                  /\ s.timeline[k].fields.allocId = id]

\* The call just made appended exactly this one timeline entry.
AppendedOne(kind) ==
    /\ Len(mem'[1].timeline) = Len(mem[1].timeline) + 1
    /\ SubSeq(mem'[1].timeline, 1, Len(mem[1].timeline)) = mem[1].timeline
    /\ Last(mem'[1].timeline).kind = kind
    /\ Last(mem'[1].timeline).index = Len(mem[1].timeline)
    /\ Last(mem'[1].timeline).time_ms = call'.time_ms


(***************************************************************************)
(* C1.  After any sequence of allocate, free and checkpoint calls,         *)
(* finalize returns a report whose leaks list is exactly the allocations   *)
(* that succeeded and were never freed, in ascending alloc_id order, whose *)
(* summary.leaked_allocs is the number of leaks entries and whose          *)
(* summary.leaked_bytes is the sum of the bytes of the leaks entries.      *)
(***************************************************************************)
C1_LeaksAndSummary ==
    phase = "finalized" =>
        /\ ~report[1].panicked
        /\ LET leaks == report[1].leaks
           IN  /\ [k \in 1..Len(leaks) |-> leaks[k].alloc_id]
                    = Ascending(LogIds("allocate") \ LogIds("free"),
                             LessInt(LogIds("allocate")))
               /\ report[1].summary.leaked_allocs = Len(leaks)
               /\ report[1].summary.leaked_bytes
                    = SumSeq([k \in 1..Len(leaks) |-> leaks[k].bytes])

\* The part of C1 that holds: the leaks list and leaked_allocs always, and
\* leaked_bytes whenever the sum of the leak bytes fits the word.
C1_WithinWord ==
    Reported =>
        LET leaks == report[1].leaks
            total == SumSeq([k \in 1..Len(leaks) |-> leaks[k].bytes])
        IN  /\ [k \in 1..Len(leaks) |-> leaks[k].alloc_id]
                 = Ascending(LogIds("allocate") \ LogIds("free"),
                             LessInt(LogIds("allocate")))
            /\ report[1].summary.leaked_allocs = Len(leaks)
            /\ total <= U64Max => report[1].summary.leaked_bytes = total

(***************************************************************************)
(* C2.  In every reachable state, and in every finalized report,           *)
(* peak_bytes >= in_use_bytes; peak_bytes never decreases, and it is the   *)
(* largest in_use_bytes reached right after a successful allocation (0 if  *)
(* none succeeded).                                                        *)
(***************************************************************************)
C2_PeakState ==
    /\ mem[1].peak_bytes >= mem[1].in_use_bytes
    /\ mem[1].peak_bytes = obs.peak_seen
    /\ Reported =>
          /\ report[1].summary.peak_bytes >= report[1].summary.in_use_bytes
          /\ report[1].summary.peak_bytes = obs.peak_seen

C2_PeakBytes ==
    /\ []C2_PeakState
    /\ [][mem'[1].peak_bytes >= mem[1].peak_bytes]_vars

\* A successful allocation after a free left in_use_bytes below the peak.
C2_Witness ==
    /\ call.op = "allocate"
    /\ IsSome(ret[1].alloc_id)
    /\ LogIds("free") # {}
    /\ 0 < mem[1].in_use_bytes
    /\ mem[1].in_use_bytes < mem[1].peak_bytes


(***************************************************************************)
(* C3.  Two MemoryState instances created with identical options and       *)
(* driven by the identical sequence of allocate, free and checkpoint calls *)
(* return the same outcome from every call and finalize to identical       *)
(* reports (summary, leaks, timeline, graph nodes and edges, in order).    *)
(* Checked on the paired runs.                                             *)
(***************************************************************************)
C3_Deterministic ==
    /\ ret[1] = ret[2]
    /\ mem[1] = mem[2]
    /\ report[1] = report[2]

\* Both instances were finalized with two leaks, a free and a failed
\* allocation behind them.
C3_Witness ==
    /\ DOMAIN mem = { 1, 2 }
    /\ Reported
    /\ Len(report[2].leaks) >= 2
    /\ report[2].summary.free_count + report[2].summary.failed_alloc_count >= 1

(***************************************************************************)
(* C4.  When limit_mb is set, an allocate call with                        *)
(* in_use_bytes + effective_bytes > limit_mb * 1,048,576 is rejected: it   *)
(* returns no alloc_id with failed_reason "limit_mb", appends exactly one  *)
(* alloc_fail timeline entry with reason limit_mb, increments              *)
(* failed_alloc_count by one and leaves in_use_bytes unchanged; a call     *)
(* that brings in_use_bytes exactly to the limit is not rejected by the    *)
(* limit.                                                                  *)
(***************************************************************************)
\* The effective bytes the allocate call just made recorded in the timeline.
CallEffectiveBytes == Last(mem'[1].timeline).fields.effectiveBytes

RejectedByLimit ==
    /\ ret'[1].alloc_id = None
    /\ ret'[1].failed_reason = Some("limit_mb")
    /\ AppendedOne("alloc_fail")
    /\ Last(mem'[1].timeline).fields.reason = "limit_mb"
    /\ mem'[1].failed_alloc_count = mem[1].failed_alloc_count + 1
    /\ mem'[1].in_use_bytes = mem[1].in_use_bytes
    /\ mem'[1].live = mem[1].live

\* C4 as stated: the sum and the product are those of the integers.
C4_LimitRejects ==
    [][(call'.op = "allocate" /\ IsSome(mem[1].options.limit_mb)) =>
        LET limit == Unwrap(mem[1].options.limit_mb) * BytesPerMb
            wanted == mem[1].in_use_bytes + CallEffectiveBytes
        IN  /\ wanted > limit => RejectedByLimit
            /\ wanted = limit => ret'[1].failed_reason # Some("limit_mb")]_vars

\* C4 as amended: the sum and the product are the saturating ones of the
\* code, so that the limit rejects exactly the calls whose saturated sum is
\* above the saturated product.
C4_LimitRejectsSaturating ==
    [][(call'.op = "allocate" /\ IsSome(mem[1].options.limit_mb)) =>
        LET limit == saturating_mul(Unwrap(mem[1].options.limit_mb), BytesPerMb)
            wanted == saturating_add(mem[1].in_use_bytes, CallEffectiveBytes)
        IN  /\ wanted > limit => RejectedByLimit
            /\ wanted <= limit => ret'[1].failed_reason # Some("limit_mb")]_vars

\* An allocation was rejected by the limit right after in_use_bytes had been
\* brought exactly to the limit by an accepted one.
C4_Witness ==
    /\ call.op = "allocate"
    /\ ret[1].failed_reason = Some("limit_mb")
    /\ mem[1].options.limit_mb = Some(1)
    /\ mem[1].in_use_bytes = BytesPerMb
    /\ mem[1].failed_alloc_count = 1

(***************************************************************************)
(* C5.  free(alloc_id) for an id that is not in the live set (never        *)
(* issued, or already freed) returns false, appends exactly one            *)
(* free_missing timeline entry and leaves in_use_bytes, peak_bytes,        *)
(* free_count, the live set and the graph unchanged; freeing the same id   *)
(* twice decrements in_use_bytes and increments free_count only once.      *)
(***************************************************************************)
C5_FreeMissing ==
    /\ [][(call'.op = "free" /\ call'.alloc_id \notin DOMAIN mem[1].live) =>
            /\ ret'[1] = FALSE
            /\ AppendedOne("free_missing")
            /\ Last(mem'[1].timeline).fields.allocId = call'.alloc_id
            /\ mem'[1].in_use_bytes = mem[1].in_use_bytes
            /\ mem'[1].peak_bytes = mem[1].peak_bytes
            /\ mem'[1].free_count = mem[1].free_count
            /\ mem'[1].live = mem[1].live
            /\ mem'[1].graph_nodes = mem[1].graph_nodes
            /\ mem'[1].graph_edges = mem[1].graph_edges]_vars
    /\ [](/\ mem[1].free_count = Len(LogOf("free"))
          /\ Cardinality(LogIds("free")) = Len(LogOf("free")))

\* The second free of an id came back false while another allocation was
\* still live.
C5_Witness ==
    /\ call.op = "free"
    /\ ret[1] = FALSE
    /\ call.alloc_id \in LogIds("free")
    /\ mem[1].in_use_bytes > 0
    /\ mem[1].free_count = 1

(***************************************************************************)
(* C6.  free(alloc_id) for a live id returns true, removes that record     *)
(* from the live set, decreases in_use_bytes by exactly the record's       *)
(* effective (scaled) bytes rather than the requested bytes, increments    *)
(* free_count by one, appends one free timeline entry and leaves           *)
(* peak_bytes unchanged; once every successful allocation has been freed,  *)
(* in_use_bytes is 0 and finalize reports no leaks.                        *)
(***************************************************************************)
FreedLive(in_use_after) ==
    /\ ret'[1] = TRUE
    /\ DOMAIN mem'[1].live = DOMAIN mem[1].live \ { call'.alloc_id }
    /\ \A k \in DOMAIN mem'[1].live : mem'[1].live[k] = mem[1].live[k]
    /\ mem[1].live[call'.alloc_id].bytes
         = AllocEntry(mem[1], call'.alloc_id).fields.effectiveBytes
    /\ mem'[1].in_use_bytes = in_use_after
    /\ mem'[1].free_count = mem[1].free_count + 1
    /\ AppendedOne("free")
    /\ Last(mem'[1].timeline).fields.allocId = call'.alloc_id
    /\ mem'[1].peak_bytes = mem[1].peak_bytes

AllFreedIsEmpty ==
    LogIds("allocate") \subseteq LogIds("free") =>
        /\ mem[1].in_use_bytes = 0
        /\ Reported => (report[1].leaks = << >>
                        /\ report[1].summary.in_use_bytes = 0)

\* C6 as stated: in_use_bytes goes down by the effective bytes.
C6_FreeLive ==
    /\ [][(call'.op = "free" /\ call'.alloc_id \in DOMAIN mem[1].live) =>
            FreedLive(mem[1].in_use_bytes
                      - AllocEntry(mem[1], call'.alloc_id).fields.effectiveBytes)
         ]_vars
    /\ []AllFreedIsEmpty

\* C6 as amended: in_use_bytes goes down by the effective bytes, or to 0
\* when it is smaller than that (it had saturated at the top of the word).
C6_FreeLiveSaturating ==
    /\ [][(call'.op = "free" /\ call'.alloc_id \in DOMAIN mem[1].live) =>
            LET eff == AllocEntry(mem[1], call'.alloc_id).fields.effectiveBytes
            IN  FreedLive(IF mem[1].in_use_bytes >= eff
                          THEN mem[1].in_use_bytes - eff ELSE 0)]_vars
    /\ []AllFreedIsEmpty

\* An allocation scaled by the pressure wave was freed while another one
\* stayed live.
C6_Witness ==
    /\ call.op = "free"
    /\ ret[1] = TRUE
    /\ Last(mem[1].timeline).fields.bytes
         # AllocEntry(mem[1], call.alloc_id).fields.bytes
    /\ mem[1].in_use_bytes > 0

(***************************************************************************)
(* C7.  On one MemoryState the k-th successful allocate returns            *)
(* alloc_id = k: ids start at 1, grow by one per successful allocation,    *)
(* are never reused after a free, and a failed allocation consumes no id.  *)
(***************************************************************************)
C7_SequentialIds ==
    /\ \A k \in 1..Len(LogOf("allocate")) : LogOf("allocate")[k].id = k
    /\ (call.op = "allocate" /\ IsSome(ret[1].alloc_id)) =>
          Unwrap(ret[1].alloc_id) = Len(LogOf("allocate"))
    /\ (call.op = "allocate" /\ ~IsSome(ret[1].alloc_id)) =>
          IsSome(ret[1].failed_reason)

\* The second successful allocation came after a failed one and after the
\* first had been freed.
C7_Witness ==
    /\ call.op = "allocate"
    /\ ret[1].alloc_id = Some(2)
    /\ mem[1].failed_alloc_count >= 1
    /\ 1 \in LogIds("free")

(***************************************************************************)
(* C8.  With fail_after_allocs = N, none of the first N allocate calls is  *)
(* rejected with reason "fail_after_allocs"; every later allocate call     *)
(* that the limit check does not reject fails with failed_reason           *)
(* "fail_after_allocs", an alloc_fail timeline entry and                   *)
(* failed_alloc_count incremented; the limit check comes first, so a call  *)
(* violating both conditions reports "limit_mb".                           *)
(***************************************************************************)
C8_FailAfter ==
    [][(call'.op = "allocate" /\ IsSome(mem[1].options.fail_after_allocs)) =>
        LET N == Unwrap(mem[1].options.fail_after_allocs)
            k == obs'.alloc_calls
            over_limit ==
                /\ IsSome(mem[1].options.limit_mb)
                /\ saturating_add(mem[1].in_use_bytes, CallEffectiveBytes)
                     > saturating_mul(Unwrap(mem[1].options.limit_mb),
                                      BytesPerMb)
        IN  /\ k <= N => ret'[1].failed_reason # Some("fail_after_allocs")
            /\ (k > N /\ ret'[1].failed_reason # Some("limit_mb")) =>
                  /\ ret'[1].alloc_id = None
                  /\ ret'[1].failed_reason = Some("fail_after_allocs")
                  /\ AppendedOne("alloc_fail")
                  /\ Last(mem'[1].timeline).fields.reason = "fail_after_allocs"
                  /\ mem'[1].failed_alloc_count = mem[1].failed_alloc_count + 1
                  /\ mem'[1].in_use_bytes = mem[1].in_use_bytes
            /\ (k > N /\ over_limit) =>
                  ret'[1].failed_reason = Some("limit_mb")]_vars

\* The fourth call ran out of budget after the third, also past the budget,
\* had been rejected by the limit.
C8_Witness ==
    /\ call.op = "allocate"
    /\ ret[1].failed_reason = Some("fail_after_allocs")
    /\ mem[1].options.fail_after_allocs = Some(2)
    /\ obs.alloc_calls = 4
    /\ mem[1].timeline[3].kind = "alloc_fail"
    /\ mem[1].timeline[3].fields.reason = "limit_mb"

(***************************************************************************)
(* C9.  In every finalized report the graph has one allocates edge         *)
(* callsite:{hash} -> alloc:{id} per successful allocation and one         *)
(* freed_by edge alloc:{id} -> free:{id} per successful free, in the order *)
(* the operations happened; every edge endpoint is a node; the nodes are   *)
(* one per successful allocation, one per successful free and one per      *)
(* distinct callsite hash, sorted by id; failed allocations, missing frees *)
(* and checkpoints add no node or edge.                                    *)
(***************************************************************************)
EdgeOf(e) ==
    IF e.op = "allocate"
    THEN [ from |-> CallsitePrefix \o e.callsite_hash,
           to |-> AllocPrefix \o Decimal(e.id), kind |-> "allocates" ]
    ELSE [ from |-> AllocPrefix \o Decimal(e.id),
           to |-> FreePrefix \o Decimal(e.id), kind |-> "freed_by" ]

NodesOfLog ==
    { [ id |-> AllocPrefix \o Decimal(LogOf("allocate")[k].id),
        kind |-> "alloc", label |-> Decimal(LogOf("allocate")[k].id) ] :
          k \in 1..Len(LogOf("allocate")) }
    \cup
    { [ id |-> CallsitePrefix \o LogOf("allocate")[k].callsite_hash,
        kind |-> "callsite", label |-> LogOf("allocate")[k].callsite_hash ] :
          k \in 1..Len(LogOf("allocate")) }
    \cup
    { [ id |-> FreePrefix \o Decimal(LogOf("free")[k].id),
        kind |-> "free", label |-> Decimal(LogOf("free")[k].id) ] :
          k \in 1..Len(LogOf("free")) }

C9_Graph ==
    Reported =>
        LET nodes == report[1].graph.nodes
            edges == report[1].graph.edges
            ids == { nodes[k].id : k \in 1..Len(nodes) }
        IN  /\ edges = [k \in 1..Len(obs.log) |-> EdgeOf(obs.log[k])]
            /\ \A k \in 1..Len(edges) :
                  edges[k].from \in ids /\ edges[k].to \in ids
            /\ { nodes[k] : k \in 1..Len(nodes) } = NodesOfLog
            /\ \A k \in 1..(Len(nodes) - 1) :
                  LessStr(nodes[k].id, nodes[k + 1].id)

\* A report of three nodes and two edges after four calls, two of which
\* left no trace in the graph.
C9_Witness ==
    /\ Reported
    /\ Len(report[1].graph.nodes) = 3
    /\ Len(report[1].graph.edges) = 2
    /\ Len(report[1].timeline) = 4

(***************************************************************************)
(* C10.  For every trace, running the timeline builder and the cpu, heap,  *)
(* latency, symbols and metrics reducers twice on it yields identical      *)
(* documents, including the order of every emitted list (folded stacks,    *)
(* hotspots, retention suspects, lifetime histogram, critical-path edges,  *)
(* wait reasons, symbols).  Checked on the profiler's runs.                *)
(***************************************************************************)
C10_ReducersIdempotent == Len(docs) = 2 => docs[1] = docs[2]

\* What the two runs do agree on: every document but the heap profile, and
\* the heap profile up to the order of its retention suspects.
C10_UpToSuspectOrder ==
    Len(docs) = 2 =>
        /\ [docs[1] EXCEPT !.heap = 0] = [docs[2] EXCEPT !.heap = 0]
        /\ [docs[1].heap EXCEPT !.retention_suspects = 0]
             = [docs[2].heap EXCEPT !.retention_suspects = 0]
        /\ { docs[1].heap.retention_suspects[k] :
               k \in 1..Len(docs[1].heap.retention_suspects) }
             = { docs[2].heap.retention_suspects[k] :
                   k \in 1..Len(docs[2].heap.retention_suspects) }

FileVersion == de_u64(field(Unwrap(codec.disk), "version"))

(***************************************************************************)
(* C12.  read_json applied to a file whose version is not 1 (in            *)
(* particular a higher one) returns an error and no TraceFile.             *)
(***************************************************************************)
C12_VersionChecked ==
    (codec.loaded.done /\ IsSome(codec.disk) /\ FileVersion # Ok(1)) =>
        ~IsOk(codec.loaded.result)

\* The folded stacks of the cpu profile built alone; none after a panic.
FoldedStacks ==
    IF IsSome(calc.cpu) /\ IsSome(Unwrap(calc.cpu).profile)
    THEN Unwrap(Unwrap(calc.cpu).profile).folded_stacks ELSE << >>

\* The timeline the reducers are given.
GivenTimeline == build_profile_timeline(trace)

\* The stack of the k-th event of the timeline.
StackAt(k) == folded_name(stack_parts(GivenTimeline[k]))

\* The sum of max(1, duration_ms) over the events of a stack.
WeightOf(st) ==
    SumSeq([k \in 1..Len(GivenTimeline) |->
              IF StackAt(k) # st THEN 0
              ELSE IF IsSome(GivenTimeline[k].cost.duration_ms)
                      /\ Unwrap(GivenTimeline[k].cost.duration_ms) > 1
              THEN Unwrap(GivenTimeline[k].cost.duration_ms) ELSE 1])

\* folded_stacks is strictly ordered by weight descending, then stack
\* ascending.
FoldedOrdered ==
    \A i, j \in 1..Len(FoldedStacks) :
        i < j =>
            \/ FoldedStacks[i].weight > FoldedStacks[j].weight
            \/ /\ FoldedStacks[i].weight = FoldedStacks[j].weight
               /\ LessStr(FoldedStacks[i].stack, FoldedStacks[j].stack)

(***************************************************************************)
(* C19.  In the cpu profile every distinct stack of the timeline appears   *)
(* exactly once in folded_stacks, with a weight equal to the sum of        *)
(* max(1, duration_ms) over its events; for positions i < j either         *)
(* weight(i) > weight(j), or the weights are equal and stack(i) < stack(j).*)
(***************************************************************************)
C19_FoldedStacks ==
    IsSome(calc.cpu) =>
        /\ \A k \in 1..Len(GivenTimeline) :
              \E i \in 1..Len(FoldedStacks) :
                  /\ FoldedStacks[i].stack = StackAt(k)
                  /\ FoldedStacks[i].weight = WeightOf(StackAt(k))
                  /\ \A j \in 1..Len(FoldedStacks) :
                        FoldedStacks[j].stack = StackAt(k) => j = i
        /\ FoldedOrdered

\* What does hold: the claim wherever no stack's total leaves the word, and
\* the order of folded_stacks in every profile that is built.
C19_WithinWord ==
    /\ (IsSome(calc.cpu) /\ ~cpu_overflows(GivenTimeline)) => C19_FoldedStacks
    /\ FoldedOrdered

\* The latency distribution built alone.
Distribution == Unwrap(calc.latency).distribution

\* The deltas between consecutive events of the timeline.
Deltas ==
    [k \in 1..(Len(GivenTimeline) - 1) |->
        GivenTimeline[k + 1].t_virtual - GivenTimeline[k].t_virtual]

\* v is the element at index idx (from 0) of the deltas sorted ascending.
IsSortedAt(v, idx) ==
    /\ Cardinality({ k \in DOMAIN Deltas : Deltas[k] < v }) <= idx
    /\ Cardinality({ k \in DOMAIN Deltas : Deltas[k] <= v }) > idx

\* v is the element at index round((n - 1) * p100 / 100).
IsPercentile(v, p100) ==
    \E idx \in 0..(Len(Deltas) - 1) :
        /\ 100 * idx - 50 <= (Len(Deltas) - 1) * p100
        /\ (Len(Deltas) - 1) * p100 < 100 * idx + 50
        /\ IsSortedAt(v, idx)

C20_WitnessEmpty ==
    /\ IsSome(calc.latency)
    /\ Len(GivenTimeline) = 1
    /\ Distribution.count = 0

\* The findings of compute_diff(A, B) and of compute_diff(B, A).
FindingsAB == Unwrap(calc.diff).ab.regressions

FindingsBA == Unwrap(calc.diff).ba.regressions

(***************************************************************************)
(* C18.  For all metrics documents A and B and any domain list,            *)
(* compute_diff(A, B) and compute_diff(B, A) contain the same              *)
(* (domain, metric) findings at the same positions, and the delta of each  *)
(* finding of one is the negation of the delta at that position of the     *)
(* other.                                                                  *)
(***************************************************************************)
C18_DiffAntisymmetric ==
    IsSome(calc.diff) =>
        /\ Len(FindingsAB) = Len(FindingsBA)
        /\ \A i \in 1..Len(FindingsAB) :
              /\ FindingsAB[i].domain = FindingsBA[i].domain
              /\ FindingsAB[i].metric = FindingsBA[i].metric
              /\ FindingsAB[i].delta = -FindingsBA[i].delta
              /\ FindingsAB[i].left_value = FindingsBA[i].right_value
              /\ FindingsAB[i].right_value = FindingsBA[i].left_value

\* A diff over all five domains whose findings the sort reordered, with
\* deltas of both signs, a tie on |delta| and values an f64 rounds.
C18_Witness ==
    /\ IsSome(calc.diff)
    /\ Len(FindingsAB) = 8
    /\ FindingsAB[1].domain # "cpu"
    /\ \E i, j \in 1..Len(FindingsAB) :
          FindingsAB[i].delta > 0 /\ FindingsAB[j].delta < 0
    /\ \E i \in 1..(Len(FindingsAB) - 1) :
          /\ FindingsAB[i].delta # 0
          /\ f64_abs(FindingsAB[i].delta) = f64_abs(FindingsAB[i + 1].delta)
    /\ \E i \in 1..Len(FindingsAB) :
          FindingsAB[i].left_value # Unwrap(calc.diff_of).a.alloc_bytes
          /\ FindingsAB[i].metric = MetricAllocBytes

\* The operations that begin by loading the bundle of their selector.
LoadedFirst ==
    cmd.op \in { "top", "flame", "timeline", "explain", "export" }

\* The directory of the selector's run.
RunDirOf(selector) == << "runs" >> \o selector.dir \o << selector.stem >>

\* File `name`.json of the selector's run directory names, as its
\* trace_path, a file that exists.
NamesTrace(name, kind, p) ==
    LET doc == PathOf(RunDirOf(cmd.selector), name, "json")
    IN  /\ doc \in DOMAIN cmd.before
        /\ cmd.before[doc].kind = kind
        /\ cmd.before[doc].trace_path = Some(p)
        /\ p \in DOMAIN cmd.before

\* The rules of the resolver, each holding only when none before it does.
Rule1 ==
    cmd.selector \in DOMAIN cmd.before
    /\ cmd.selector.ext \in { "fozzy", "FOZZY", "Fozzy" }

Rule2 ==
    ~Rule1 /\ PathOf(RunDirOf(cmd.selector), "trace", "fozzy") \in DOMAIN cmd.before

Rule3(p) == ~Rule1 /\ ~Rule2 /\ NamesTrace("report", "report", p)

Rule4(p) ==
    /\ ~Rule1
    /\ ~Rule2
    /\ ~\E q \in DOMAIN cmd.before : Rule3(q)
    /\ NamesTrace("manifest", "manifest", p)

\* p is the trace the rules pick.
Picked(p) ==
    \/ Rule1 /\ p = cmd.selector
    \/ Rule2 /\ p = PathOf(RunDirOf(cmd.selector), "trace", "fozzy")
    \/ Rule3(p)
    \/ Rule4(p)

\* The six derived artifacts next to the picked trace or in the run
\* directory.
SixOf(dir) ==
    { PathOf(dir, stem, "json") :
        stem \in { "profile.timeline", "profile.cpu", "profile.heap",
                   "profile.latency", "profile.metrics", "symbols" } }

BundleDir == IF Rule1 THEN cmd.selector.dir ELSE RunDirOf(cmd.selector)

C13_WitnessAsIs ==
    /\ LoadedFirst
    /\ cmd.status = "ok"
    /\ ~\E p \in DOMAIN cmd.before : Picked(p)
    /\ \A a \in SixOf(BundleDir) : fsys[a].of = << "old" >>

(***************************************************************************)
(* C14.  Under the strict contract every profile operation that requests   *)
(* the cpu domain is rejected and returns no cpu-derived data: top and     *)
(* diff with cpu, flame with cpu, and every other operation whose output   *)
(* is built from cpu samples or folded stacks.  Without the strict         *)
(* contract no operation is rejected on this ground.                       *)
(***************************************************************************)
C14_StrictNoCpu ==
    /\ (cmd.strict /\ cmd.cpu_requested) => cmd.status # "ok"
    /\ cmd.strict => ~cmd.cpu_data
    /\ ~cmd.strict => cmd.status # "strict_contract"

\* What does hold: top, flame and diff are rejected under the strict
\* contract when they request the cpu domain, with the contract's error
\* whenever the bundle loads, and nothing is rejected without the contract.
C14_RequestedDomains ==
    /\ (cmd.strict /\ cmd.cpu_requested) => (cmd.status # "ok" /\ ~cmd.cpu_data)
    /\ (cmd.strict /\ cmd.op \in { "top", "flame", "diff" }) => ~cmd.cpu_data
    /\ ~cmd.strict => cmd.status # "strict_contract"

\* The trace the resolver picked for the command, if any.
ResolvedTrace == resolve_profile_artifacts(cmd.before, cmd.selector).trace

(***************************************************************************)
(* C17.  No profile operation (top, flame, timeline, diff, explain,        *)
(* export, shrink, doctor) changes the content of the resolved trace file: *)
(* derivation writes only the six derived files and shrink writes its      *)
(* trace to a different path.                                              *)
(***************************************************************************)
C17_TraceUntouched ==
    (cmd.op # "none" /\ IsSome(ResolvedTrace)) =>
        /\ Unwrap(ResolvedTrace) \in DOMAIN fsys
        /\ fsys[Unwrap(ResolvedTrace)] = cmd.before[Unwrap(ResolvedTrace)]

\* What does hold: the trace is untouched by every operation whose --out
\* is not the trace itself; derivation and shrink leave it alone.
C17_UnlessOutIsTrace ==
    (cmd.op # "none" /\ IsSome(ResolvedTrace) /\ cmd.out # ResolvedTrace) =>
        fsys[Unwrap(ResolvedTrace)] = cmd.before[Unwrap(ResolvedTrace)]


\* What Shrink returned, once it has run.
ShrinkRun == Unwrap(shr)

ShrinkDoc == Unwrap(ShrinkRun.doc)

\* C15: Shrink on a trace that was read returns an error only when
\* shrink_trace gave no trace, panics only where a cpu weight overflows in a
\* build with overflow checks, and otherwise returns a document, whether the
\* contract was kept or missed, in which preserved is true
\* exactly when after >= baseline (increase) or after <= baseline
\* (decrease), status is "ok" exactly when preserved and
\* "no_feasible_shrink_found" otherwise, reason is present exactly when not
\* preserved and then names the comparator expected for the direction, and
\* baseline and after are the metric of a reducer pass on the original and
\* on the shrunk trace.
C15_ShrinkContract ==
    IsSome(shr) =>
        /\ ShrinkRun.outcome = "panic" =>
              /\ calc.overflow_checks
              /\ \/ cpu_overflows(build_profile_timeline(trace))
                 \/ /\ IsSome(ShrinkRun.shrunk)
                    /\ cpu_overflows(build_profile_timeline(
                           Unwrap(ShrinkRun.shrunk)))
        /\ ShrinkRun.outcome = "err" => ShrinkRun.shrunk = None
        /\ ShrinkRun.outcome = "ok" =>
              /\ IsSome(ShrinkRun.doc)
              /\ ShrinkDoc.preserved =
                    (\/ /\ ShrinkRun.direction = "increase"
                        /\ ShrinkDoc.after >= ShrinkDoc.baseline
                     \/ /\ ShrinkRun.direction = "decrease"
                        /\ ShrinkDoc.after <= ShrinkDoc.baseline)
              /\ ShrinkDoc.status =
                    (IF ShrinkDoc.preserved THEN "ok"
                     ELSE "no_feasible_shrink_found")
              /\ IsSome(ShrinkDoc.reason) = ~ShrinkDoc.preserved
              /\ IsSome(ShrinkDoc.reason) =>
                    Unwrap(ShrinkDoc.reason).expected =
                        << "after",
                           IF ShrinkRun.direction = "increase" THEN ">="
                           ELSE "<=",
                           "baseline" >>
              /\ ShrinkDoc.baseline \in metric_values(ShrinkRun.metric, trace)
              /\ ShrinkDoc.after \in
                    metric_values(ShrinkRun.metric, Unwrap(ShrinkRun.shrunk))

\* Shrink returned a document for a contract that was missed: cpu_time was
\* to increase and the shrunk trace weighs less.
C15_Witness ==
    /\ IsSome(shr)
    /\ ShrinkRun.outcome = "ok"
    /\ ShrinkRun.metric = "cpu_time"
    /\ ShrinkRun.direction = "increase"
    /\ ShrinkDoc.after < ShrinkDoc.baseline
    /\ ShrinkDoc.status = "no_feasible_shrink_found"
    /\ IsSome(ShrinkDoc.reason)

\* Shrink returned a document for a contract that was kept on a trace that
\* lost events.
C15_WitnessKept ==
    /\ IsSome(shr)
    /\ ShrinkRun.outcome = "ok"
    /\ ShrinkRun.metric = "p99_latency"
    /\ ShrinkRun.direction = "decrease"
    /\ Len(Unwrap(ShrinkRun.shrunk).events) < Len(trace.events)
    /\ ShrinkDoc.after < ShrinkDoc.baseline
    /\ ShrinkDoc.status = "ok"
    /\ ShrinkDoc.reason = None


\* C16: a process that has read a derived artifact to the end of the file,
\* whatever another process was writing to it meanwhile, has read one of
\* the complete documents, never an empty or a partly written file.
C16_ReaderSeesWhole ==
    art.reader.pc = "done" => art.reader.buf \in ArtifactTexts

\* A read that no rewrite overlapped returns a complete document.
C16_QuietRead ==
    (art.reader.pc = "done" /\ ~art.reader.overlapped) =>
        art.reader.buf \in ArtifactTexts

\* A read overlapped by a rewrite can still return a complete document.
C16_OverlappedWhole ==
    /\ art.reader.pc = "done"
    /\ art.reader.overlapped
    /\ art.reader.buf \in ArtifactTexts


\* The timeline built alone.
BuiltTimeline == Unwrap(calc.timeline)

\* "e-{i}" for an index of one digit.
SpanOf(i) ==
    << "e", "-", << "0", "1", "2", "3", "4", "5", "6", "7", "8", "9" >>[i + 1] >>

\* C21: build_profile_timeline emits one ProfileEvent per trace event, in
\* the order of the events: the event at index i has t_virtual = time_ms,
\* t_mono = i, span_id "e-{i}", parent_span_id "e-{i-1}" when i > 0 and none
\* when i = 0, and the run_id and seed of the trace summary.
C21_Timeline ==
    IsSome(calc.timeline) =>
        /\ Len(BuiltTimeline) = Len(trace.events)
        /\ \A i \in 0..(Len(trace.events) - 1) :
              /\ BuiltTimeline[i + 1].t_virtual = trace.events[i + 1].time_ms
              /\ BuiltTimeline[i + 1].kind =
                    map_event_kind(trace.events[i + 1].name)
              /\ BuiltTimeline[i + 1].t_mono = Some(i)
              /\ BuiltTimeline[i + 1].span_id = SpanOf(i)
              /\ BuiltTimeline[i + 1].parent_span_id =
                    (IF i > 0 THEN Some(SpanOf(i - 1)) ELSE None)
              /\ BuiltTimeline[i + 1].run_id = trace.summary.identity.run_id
              /\ BuiltTimeline[i + 1].seed = trace.summary.identity.seed

\* A timeline of MaxEvents events of run r2, two of them the same event.
C21_Witness ==
    /\ IsSome(calc.timeline)
    /\ Len(BuiltTimeline) = MaxEvents
    /\ trace.events[1] = trace.events[2]
    /\ BuiltTimeline[1].parent_span_id = None
    /\ BuiltTimeline[MaxEvents].parent_span_id = Some(BuiltTimeline[MaxEvents - 1].span_id)
    /\ BuiltTimeline[1].run_id = "r2"


(***************************************************************************)
(* C22.  With a non-empty pressure wave and no fragmentation seed, the     *)
(* effective bytes of the n-th allocate call is                            *)
(* bytes * wave[(n - 1) mod len(wave)], wave being the positive integers   *)
(* of the option; in_use_bytes, peak_bytes and the bytes of the live       *)
(* record (which finalize reports as the leak) are in effective bytes.     *)
(***************************************************************************)
\* The positive integers the pressure_wave option of instance 1 lists.
WaveOfOption ==
    IF mem[1].options.pressure_wave = Some(Wave12) THEN << 1, 2 >> ELSE << >>

\* The multiplier of the allocate call just made, the n-th.
WaveMultiplier ==
    WaveOfOption[((obs'.alloc_calls - 1) % Len(WaveOfOption)) + 1]

WaveCall ==
    /\ call'.op = "allocate"
    /\ WaveOfOption # << >>
    /\ mem[1].options.fragmentation_seed = None

\* C22 as stated: the product and the sums are those of the integers.
C22_PressureWave ==
    [][WaveCall =>
        LET effective == call'.bytes * WaveMultiplier
        IN  /\ CallEffectiveBytes = effective
            /\ IsSome(ret'[1].alloc_id) =>
                  /\ mem'[1].live[Unwrap(ret'[1].alloc_id)].bytes = effective
                  /\ mem'[1].in_use_bytes = mem[1].in_use_bytes + effective
                  /\ mem'[1].peak_bytes =
                        Max(mem[1].peak_bytes, mem'[1].in_use_bytes)]_vars

\* C22 as amended: the product and the sum stop at the largest u64.
C22_PressureWaveSaturating ==
    [][WaveCall =>
        LET product == call'.bytes * WaveMultiplier
            effective == IF product > U64Max THEN U64Max ELSE product
            sum == mem[1].in_use_bytes + effective
        IN  /\ CallEffectiveBytes = effective
            /\ IsSome(ret'[1].alloc_id) =>
                  /\ mem'[1].live[Unwrap(ret'[1].alloc_id)].bytes = effective
                  /\ mem'[1].in_use_bytes =
                        (IF sum > U64Max THEN U64Max ELSE sum)
                  /\ mem'[1].peak_bytes =
                        Max(mem[1].peak_bytes, mem'[1].in_use_bytes)]_vars

\* pressure_wave "1,2" and three 100-byte requests: effective bytes 100,
\* 200, 100 and a peak of 400.
C22_Witness ==
    /\ WaveOfOption = << 1, 2 >>
    /\ obs.alloc_calls = 3
    /\ Len(mem[1].timeline) = 3
    /\ \A k \in 1..3 : mem[1].timeline[k].fields.bytes = 100
    /\ mem[1].timeline[1].fields.effectiveBytes = 100
    /\ mem[1].timeline[2].fields.effectiveBytes = 200
    /\ mem[1].timeline[3].fields.effectiveBytes = 100
    /\ mem[1].peak_bytes = 400


(***************************************************************************)
(* C23.  The heap reducer scans the timeline in order with a live map      *)
(* keyed by alloc_id: an alloc event is skipped when its failed_reason is  *)
(* non-empty and not "null" and otherwise inserts a live entry with its    *)
(* bytes and start time; a free of a live id moves the entry to completed  *)
(* with end = the free's time, any other free changes nothing.             *)
(* total_alloc_bytes is the sum of the bytes of the live and completed     *)
(* entries, retention_suspects are the live entries, and in_use_bytes is   *)
(* max(sum of live bytes, trace.memory.summary.in_use_bytes).              *)
(***************************************************************************)
\* What build_heap_profile ended with.
HeapRun == Unwrap(calc.heap)

HeapIsAlloc(k) == trace.events[k].name = NameMemoryAlloc

HeapIsFree(k) == trace.events[k].name = NameMemoryFree

\* The event carries a failed_reason that is neither empty nor "null".
HeapFailed(k) ==
    /\ "failed_reason" \in DOMAIN trace.events[k].fields
    /\ trace.events[k].fields.failed_reason.v # << >>
    /\ trace.events[k].fields.failed_reason.v # << "n", "u", "l", "l" >>

\* The alloc_id an event carries, 0 when it carries none.
HeapId(k) ==
    IF "alloc_id" \in DOMAIN trace.events[k].fields
    THEN trace.events[k].fields.alloc_id.v ELSE 0

HeapBytes(k) ==
    IF "bytes" \in DOMAIN trace.events[k].fields
    THEN trace.events[k].fields.bytes.v ELSE 0

\* An event after k that ends the live entry event k inserted: a free of its
\* id, or an insertion (one of ins) under the same id.
HeapEnds(ins, k, m) ==
    /\ m > k
    /\ HeapId(m) = HeapId(k)
    /\ HeapIsFree(m) \/ m \in ins

\* The insertions still live at the end of the scan.
HeapLive(ins) ==
    { k \in ins : \A m \in DOMAIN trace.events : ~HeapEnds(ins, k, m) }

\* The pairs << k, j >> of an insertion and the free that completed it.
HeapDone(ins) ==
    { p \in ins \X DOMAIN trace.events :
        /\ HeapIsFree(p[2])
        /\ HeapEnds(ins, p[1], p[2])
        /\ \A m \in (p[1] + 1)..(p[2] - 1) : ~HeapEnds(ins, p[1], m) }

\* The sum of the bytes of a set of events, which stops at cap.
HeapSum(of, cap) ==
    LET RECURSIVE Add(_)
        Add(S) == IF S = {} THEN 0
                  ELSE LET k == CHOOSE k \in S : TRUE
                       IN  HeapBytes(k) + Add(S \ { k })
    IN  IF Add(of) > cap THEN cap ELSE Add(of)

\* The scan and the profile are those of the insertions ins, with sums that
\* stop at cap.
HeapScanMatches(ins, cap) ==
    LET live == HeapLive(ins)
        done == HeapDone(ins)
        memory == IF trace.memory = None THEN 0
                  ELSE Unwrap(trace.memory).summary.in_use_bytes
    IN  /\ DOMAIN HeapRun.live = { HeapId(k) : k \in live }
        /\ \A k \in live :
              /\ HeapRun.live[HeapId(k)].bytes = HeapBytes(k)
              /\ HeapRun.live[HeapId(k)].start = trace.events[k].time_ms
              /\ HeapRun.live[HeapId(k)].end = None
        /\ Len(HeapRun.completed) = Cardinality(done)
        /\ \A p \in done :
              LET at == Cardinality({ q \in done : q[2] <= p[2] })
              IN  /\ HeapRun.completed[at].bytes = HeapBytes(p[1])
                  /\ HeapRun.completed[at].start = trace.events[p[1]].time_ms
                  /\ HeapRun.completed[at].end =
                        Some(trace.events[p[2]].time_ms)
        /\ HeapRun.profile.total_alloc_bytes =
              HeapSum(live \cup { p[1] : p \in done }, cap)
        /\ Len(HeapRun.profile.retention_suspects) = Cardinality(live)
        /\ { << r.alloc_id, r.bytes >> :
               r \in { HeapRun.profile.retention_suspects[i] :
                         i \in DOMAIN HeapRun.profile.retention_suspects } }
              = { << HeapId(k), HeapBytes(k) >> : k \in live }
        /\ HeapRun.profile.in_use_bytes = Max(HeapSum(live, cap), memory)

\* C23 as stated: every alloc event that is not failed inserts, and the sums
\* are those of the integers.
C23_HeapScan ==
    IsSome(calc.heap) =>
        HeapScanMatches({ k \in DOMAIN trace.events :
                            HeapIsAlloc(k) /\ ~HeapFailed(k) },
                        (MaxEvents + 1) * U64Max)

\* C23 as amended: an alloc event without an alloc_id (or with alloc_id 0)
\* is skipped too, and the sums stop at the largest u64.
C23_HeapScanOfIds ==
    IsSome(calc.heap) =>
        HeapScanMatches({ k \in DOMAIN trace.events :
                            HeapIsAlloc(k) /\ ~HeapFailed(k) /\ HeapId(k) # 0 },
                        U64Max)

\* A scan that completed one allocation and left live another whose
\* failed_reason is "null", under a memory report that is above the live
\* bytes.
C23_Witness ==
    /\ IsSome(calc.heap)
    /\ Len(HeapRun.completed) = 1
    /\ DOMAIN HeapRun.live = { 1 }
    /\ HeapRun.live[1].bytes = 32
    /\ trace.memory # None
    /\ HeapRun.profile.in_use_bytes = 64

\* An alloc event without alloc_id and without failed_reason was scanned.
C23_WitnessNoId ==
    /\ IsSome(calc.heap)
    /\ \E k \in DOMAIN trace.events :
          HeapIsAlloc(k) /\ ~HeapFailed(k) /\ HeapId(k) = 0
    /\ HeapRun.live # << >>


(***************************************************************************)
(* C24.  For a timeline of n events the latency profile has n - 1 deltas   *)
(* and n - 1 critical-path edges, one per consecutive pair e-i -> e-(i+1)  *)
(* with duration t(i+1) - t(i) and the reason of the successor's kind; the *)
(* edges are ordered by duration descending, ties by from_span ascending,  *)
(* and the wait-reason counts sum to n - 1.                                *)
(***************************************************************************)
CriticalPath == Unwrap(calc.latency).critical_path

WaitReasons == Unwrap(calc.latency).wait_reasons

\* The number of consecutive pairs of the trace's events.
PairCount == IF trace.events = << >> THEN 0 ELSE Len(trace.events) - 1

\* The reason of an event as successor: io, sched, heap, payload or other.
ReasonAt(k) ==
    LET name == trace.events[k].name
    IN  IF name = NameHttpRequest THEN << "i", "o" >>
        ELSE IF name = NameDeliver THEN << "s", "c", "h", "e", "d" >>
        ELSE IF name = NameMemoryFree THEN << "h", "e", "a", "p" >>
        ELSE IF name = << "n", "e", "t", "_", "d", "r", "o", "p" >>
        THEN << "p", "a", "y", "l", "o", "a", "d" >>
        ELSE << "o", "t", "h", "e", "r" >>

\* The index i of the span "e-{i}".
SpanIndex(span) == CHOOSE i \in 0..9 : SpanOf(i) = span

C24_CriticalPath ==
    IsSome(calc.latency) =>
        /\ Distribution.count = PairCount
        /\ Len(CriticalPath) = PairCount
        /\ \A i \in 0..(PairCount - 1) :
              \E at \in DOMAIN CriticalPath :
                 /\ CriticalPath[at].from_span = SpanOf(i)
                 /\ CriticalPath[at].to_span = SpanOf(i + 1)
                 /\ CriticalPath[at].duration_ms =
                       trace.events[i + 2].time_ms - trace.events[i + 1].time_ms
                 /\ CriticalPath[at].reason = ReasonAt(i + 2)
        /\ \A at \in 1..(PairCount - 1) :
              \/ CriticalPath[at].duration_ms > CriticalPath[at + 1].duration_ms
              \/ /\ CriticalPath[at].duration_ms = CriticalPath[at + 1].duration_ms
                 /\ SpanIndex(CriticalPath[at].from_span)
                       < SpanIndex(CriticalPath[at + 1].from_span)
        /\ SumSeq([r \in DOMAIN WaitReasons |-> WaitReasons[r].count]) = PairCount
        /\ \A r \in DOMAIN WaitReasons :
              WaitReasons[r].count =
                 Cardinality({ at \in DOMAIN CriticalPath :
                                 CriticalPath[at].reason = WaitReasons[r].reason })

\* Events at 1, 4, 8: deltas 3 and 4, p50 = p95 = max = 4 and the 4 ms edge
\* first.
C24_Witness ==
    /\ IsSome(calc.latency)
    /\ [k \in DOMAIN trace.events |-> trace.events[k].time_ms] = << 1, 4, 8 >>
    /\ Distribution.count = 2
    /\ Distribution.p50_ms = 4
    /\ Distribution.p95_ms = 4
    /\ Distribution.max_ms = 4
    /\ CriticalPath[1].duration_ms = 4
    /\ CriticalPath[1].from_span = SpanOf(1)
    /\ CriticalPath[2].duration_ms = 3

\* Two edges of the same duration, the earlier span first.
C24_WitnessTie ==
    /\ IsSome(calc.latency)
    /\ Len(CriticalPath) >= 3
    /\ CriticalPath[1].duration_ms = CriticalPath[2].duration_ms
    /\ CriticalPath[2].duration_ms > CriticalPath[3].duration_ms
    /\ CriticalPath[1].duration_ms > 0


(***************************************************************************)
(* C25.  In the timeline HTML page every string that originates from the   *)
(* trace (thread, span_id and event name of each row) is XML-escaped: no   *)
(* table cell holds a raw '<', '>', '&', '"' or ''' taken from event data. *)
(***************************************************************************)
\* What a character of event data is written as.
Entity(c) ==
    IF c = "&" THEN << "&", "a", "m", "p", ";" >>
    ELSE IF c = "<" THEN << "&", "l", "t", ";" >>
    ELSE IF c = ">" THEN << "&", "g", "t", ";" >>
    ELSE IF c = "\"" THEN << "&", "q", "u", "o", "t", ";" >>
    ELSE IF c = "'" THEN << "&", "a", "p", "o", "s", ";" >>
    ELSE << c >>

\* A string of event data, each character written as its entity.
Escaped(s) ==
    LET RECURSIVE from(_)
        from(k) == IF k > Len(s) THEN << >> ELSE Entity(s[k]) \o from(k + 1)
    IN  from(1)

\* The thread of the event at k: its `thread` field when a string, or main.
HtmlThread(k) ==
    IF "thread" \in DOMAIN trace.events[k].fields
    THEN trace.events[k].fields.thread.v
    ELSE << "m", "a", "i", "n" >>

\* The cell of a text.
Cell(text) == TdOpen \o text \o TdClose

\* The rows from k on, the thread written as thread_as[k].
RowsFrom(k, thread_as) ==
    LET RECURSIVE from(_)
        from(j) ==
            IF j > Len(trace.events) THEN << >>
            ELSE << "<", "t", "r", ">" >>
                 \o Cell(Decimal(trace.events[j].time_ms))
                 \o Cell(kind_debug(map_event_kind(trace.events[j].name)))
                 \o Cell(thread_as[j])
                 \o Cell(Escaped(SpanOf(j - 1)))
                 \o Cell(Escaped(trace.events[j].name))
                 \o << "<", "/", "t", "r", ">" >>
                 \o from(j + 1)
    IN  from(k)

HtmlPage == Unwrap(calc.html)

C25_Escaped ==
    IsSome(calc.html) =>
        HtmlPage = HtmlHead
                   \o RowsFrom(1, [k \in DOMAIN trace.events |-> Escaped(HtmlThread(k))])
                   \o HtmlTail

\* span_id and event name are escaped; the thread is written as it is.
C25_EscapedSpanAndName ==
    IsSome(calc.html) =>
        HtmlPage = HtmlHead
                   \o RowsFrom(1, [k \in DOMAIN trace.events |-> HtmlThread(k)])
                   \o HtmlTail

\* The number of '<' in a text.
CountLt(text) == Cardinality({ k \in DOMAIN text : text[k] = "<" })

\* A page with a '<' of a thread in it next to an escaped name.
C25_RawThread ==
    /\ IsSome(calc.html)
    /\ Len(trace.events) = 1
    /\ HtmlThread(1) = << "<", "b", ">" >>
    /\ trace.events[1].name # NameDeliver
    /\ CountLt(HtmlPage) = CountLt(HtmlHead) + 12 + CountLt(HtmlTail) + 1


(***************************************************************************)
(* C26.  In every reachable state of MemoryState (absent u64 saturation)   *)
(* in_use_bytes equals the sum of the effective bytes of the records in    *)
(* the live set, so in every finalized report summary.in_use_bytes equals  *)
(* summary.leaked_bytes.                                                   *)
(***************************************************************************)
\* What the bytes of the live records of a state add up to.
LiveSum(s) ==
    LET RECURSIVE over(_)
        over(ids) == IF ids = { } THEN 0
                     ELSE LET id == CHOOSE k \in ids : TRUE
                          IN  s.live[id].bytes + over(ids \ { id })
    IN  over(DOMAIN s.live)

\* in_use_bytes never reached the end of the word, where its sum saturates.
NeverSaturated(s) == s.peak_bytes < U64Max

C26_InUseIsLiveSum ==
    \A i \in DOMAIN mem :
        NeverSaturated(mem[i]) =>
            /\ mem[i].in_use_bytes = LiveSum(mem[i])
            /\ (phase = "finalized" /\ ~report[i].panicked) =>
                  /\ report[i].summary.in_use_bytes
                        = report[i].summary.leaked_bytes
                  /\ report[i].summary.in_use_bytes = LiveSum(mem[i])

\* A report of a run that scaled a request, freed one allocation and leaked
\* another.
C26_Witness ==
    /\ Reported
    /\ NeverSaturated(mem[1])
    /\ mem[1].free_count = 1
    /\ mem[1].options.pressure_wave = Some(Wave12)
    /\ report[1].summary.leaked_bytes = 200
    /\ report[1].summary.in_use_bytes = 200

(***************************************************************************)
(* C27.  When limit_mb is set, in_use_bytes <= limit_mb * 1,048,576 holds  *)
(* in every state reachable by any interleaving of allocate, free and      *)
(* checkpoint calls, and hence peak_bytes never exceeds the limit either.  *)
(***************************************************************************)
C27_WithinLimit ==
    \A i \in DOMAIN mem :
        IsSome(mem[i].options.limit_mb) =>
            /\ mem[i].in_use_bytes <= Unwrap(mem[i].options.limit_mb) * BytesPerMb
            /\ mem[i].peak_bytes <= Unwrap(mem[i].options.limit_mb) * BytesPerMb
            /\ (phase = "finalized" /\ ~report[i].panicked) =>
                  report[i].summary.peak_bytes
                     <= Unwrap(mem[i].options.limit_mb) * BytesPerMb

\* The limit was reached, a request above it was rejected, and a free made
\* room again.
C27_Witness ==
    /\ mem[1].options.limit_mb = Some(1)
    /\ mem[1].peak_bytes = BytesPerMb
    /\ mem[1].in_use_bytes < BytesPerMb
    /\ mem[1].failed_alloc_count >= 1
    /\ mem[1].free_count >= 1

(***************************************************************************)
(* C28.  In every finalized report summary.alloc_count is the number of    *)
(* allocate calls made, failed ones included, so that alloc_count =        *)
(* (number of successful allocations) + failed_alloc_count and             *)
(* leaked_allocs = alloc_count - failed_alloc_count - free_count;          *)
(* free_count counts only frees that returned true.                        *)
(***************************************************************************)
C28_Counts ==
    Reported =>
        LET summary == report[1].summary
        IN  /\ summary.alloc_count = obs.alloc_calls
            /\ summary.alloc_count
                  = Len(LogOf("allocate")) + summary.failed_alloc_count
            /\ summary.leaked_allocs
                  = summary.alloc_count - summary.failed_alloc_count
                    - summary.free_count
            /\ summary.free_count = Len(LogOf("free"))

\* A report of a run with a rejected allocation, a free that returned true
\* and one that returned false.
C28_Witness ==
    /\ Reported
    /\ report[1].summary.alloc_count = 2
    /\ report[1].summary.failed_alloc_count = 1
    /\ report[1].summary.free_count = 1
    /\ report[1].summary.leaked_allocs = 0
    /\ obs.calls = 4

(***************************************************************************)
(* C29.  The allocation-attempt counter advances on every allocate call,   *)
(* rejected ones included: allocations rejected by limit_mb use up the     *)
(* fail_after_allocs budget and advance the pressure-wave position, and    *)
(* once more than fail_after_allocs allocate calls have been made no later *)
(* allocate ever succeeds, whatever frees happen in between.               *)
(***************************************************************************)
C29_AttemptCounter ==
    [][call'.op = "allocate" =>
        /\ mem'[1].alloc_ops = mem[1].alloc_ops + 1
        /\ mem'[1].alloc_ops = obs'.alloc_calls
        /\ (/\ IsSome(mem[1].options.fail_after_allocs)
            /\ obs.alloc_calls > Unwrap(mem[1].options.fail_after_allocs)) =>
                 /\ ret'[1].alloc_id = None
                 /\ mem'[1].live = mem[1].live
        /\ WaveCall =>
              CallEffectiveBytes = saturating_mul(call'.bytes, WaveMultiplier)]_vars

\* Two of the three calls were rejected by the limit and the third found
\* the budget of two spent, with nothing in use.
C29_Witness ==
    /\ call.op = "allocate"
    /\ ret[1].failed_reason = Some("fail_after_allocs")
    /\ mem[1].options.fail_after_allocs = Some(2)
    /\ obs.alloc_calls = 3
    /\ Len(LogOf("allocate")) = 1
    /\ mem[1].free_count = 1
    /\ mem[1].in_use_bytes = 0
    /\ mem[1].timeline[2].kind = "alloc_fail"
    /\ mem[1].timeline[2].fields.reason = "limit_mb"

\* The call after one rejected by the limit took the next multiplier of the
\* wave 1,2.
C29_WitnessWave ==
    /\ call.op = "allocate"
    /\ IsSome(ret[1].alloc_id)
    /\ mem[1].options.pressure_wave = Some(Wave12)
    /\ obs.alloc_calls = 3
    /\ mem[1].failed_alloc_count = 1
    /\ mem[1].timeline[2].kind = "alloc_fail"
    /\ mem[1].timeline[2].fields.reason = "limit_mb"
    /\ Last(mem[1].timeline).fields.effectiveBytes = call.bytes


C30_RejectedDiffWritesNothing ==
    cmd.status = "strict_contract" =>
        /\ cmd.op = "diff" => fsys = cmd.before
        /\ \A p \in DOMAIN fsys :
              (p \notin DOMAIN cmd.before \/ fsys[p] # cmd.before[p]) =>
                 p \in artifact_paths(resolve_profile_artifacts(cmd.before,
                                                                cmd.selector).dir)

\* A rejected top left six documents in a directory that had none.
C30_TopWrote ==
    /\ cmd.op = "top"
    /\ cmd.status = "strict_contract"
    /\ artifact_paths(RunDir) \cap DOMAIN cmd.before = { }
    /\ artifact_paths(RunDir) \subseteq DOMAIN fsys

\* A rejected diff.
C30_DiffRejected ==
    /\ cmd.op = "diff"
    /\ cmd.status = "strict_contract"
    /\ PathOf(RunDir, "trace", "fozzy") \in DOMAIN fsys
    /\ artifact_paths(RunDir) \cap DOMAIN fsys = { }

=============================================================================
